---- MODULE Spec2Model ----
(***************************************************************************)
(* A model of the bisbis10 restaurant gateway: the express route handlers  *)
(* of restaurantsController, ratingsController and orderController, the    *)
(* middleware chain in front of them, the property classifier, and the     *)
(* PostgreSQL store they all reach through the one shared `client`.        *)
(*                                                                         *)
(* Every `await client.query(...)` of a handler is one step: the           *)
(* synchronous code that leads to the query runs with it, and the answer   *)
(* that follows the last query of a handler is sent in the step of that    *)
(* query.  Steps of different requests interleave freely, as the event     *)
(* loop lets them.                                                         *)
(***************************************************************************)
EXTENDS Integers, Sequences, FiniteSets, TLC

(***************************************************************************)
(* Bounds of the model                                                     *)
(***************************************************************************)
MaxInFlight == 2      \* requests handled at the same time
MaxRequests == 3      \* requests received in one behaviour
MaxFaults == 1        \* statements the store refuses for its own reasons
MaxRestaurants == 2   \* rows the restaurants table ever holds

(***************************************************************************)
(* JavaScript values, as JSON delivers them (and undefined).  A string is  *)
(* its sequence of characters, a number its value in thousandths, an array *)
(* its elements, an object its own keys in insertion order, each with a    *)
(* value.                                                                  *)
(***************************************************************************)
Value(t, s, n, a, o) == [t |-> t, s |-> s, n |-> n, a |-> a, o |-> o]

Undefined == Value("undefined", <<>>, 0, <<>>, <<>>)
Null == Value("null", <<>>, 0, <<>>, <<>>)
Str(chars) == Value("string", chars, 0, <<>>, <<>>)
Num(thousandths) == Value("number", <<>>, thousandths, <<>>, <<>>)
Bool(b) == Value("boolean", <<>>, IF b THEN 1 ELSE 0, <<>>, <<>>)
Arr(elements) == Value("array", <<>>, 0, elements, <<>>)
Obj(properties) == Value("object", <<>>, 0, <<>>, properties)

typeof(v) == IF v.t \in {"null", "array"} THEN "object" ELSE v.t

isArray(v) == v.t = "array"

\* Number.isInteger
isInteger(v) == v.t = "number" /\ v.n % 1000 = 0

\* String.prototype.trim
RECURSIVE trimStart(_)
trimStart(chars) ==
  IF chars # <<>> /\ Head(chars) = " " THEN trimStart(Tail(chars)) ELSE chars

RECURSIVE trimEnd(_)
trimEnd(chars) ==
  IF chars # <<>> /\ chars[Len(chars)] = " "
  THEN trimEnd(SubSeq(chars, 1, Len(chars) - 1)) ELSE chars

trim(chars) == trimEnd(trimStart(chars))

(***************************************************************************)
(* A payload (req.body) is a JSON object: its own keys in insertion order, *)
(* each with a value.                                                      *)
(***************************************************************************)
keys(obj) == [i \in 1..Len(obj) |-> obj[i].k]

includes(list, x) == \E i \in 1..Len(list) : list[i] = x

\* obj[property]
get(obj, property) ==
  IF \E i \in 1..Len(obj) : obj[i].k = property
  THEN obj[CHOOSE i \in 1..Len(obj) : obj[i].k = property].v
  ELSE Undefined

(***************************************************************************)
(* State                                                                   *)
(***************************************************************************)
VARIABLES
  db,       \* the tables as the shared connection sees them
  snap,     \* the tables as they were when the open transaction began
  txn,      \* the connection's transaction status: idle, active or aborted
  seqs,     \* the SERIAL / uuid generators (never rolled back)
  reqs,     \* the requests in flight, one per slot
  started,  \* number of requests received so far
  faults,   \* number of statements the store has refused for its own reasons
  input,    \* arguments of the pure function under study
  output    \* its results

storeVars == <<db, snap, txn, seqs, reqs, started, faults>>
pureVars == <<input, output>>
vars == <<db, snap, txn, seqs, reqs, started, faults, input, output>>

NotRun == <<"not run">>

(***************************************************************************)
(* Property classifier (lib/checkObjectProperties.ts)                      *)
(***************************************************************************)
\* findMissing with `== undefined` in place of `=== undefined`
findMissingLoose(obj, allowedProperties) ==
  SelectSeq(allowedProperties, LAMBDA property : get(obj, property) \in {Undefined, Null})

findMissing(obj, allowedProperties) ==
  SelectSeq(allowedProperties, LAMBDA property : get(obj, property) = Undefined)

\* findForbidden testing the property's value in place of the object's keys
findForbiddenByValue(obj, forbiddenProperties) ==
  SelectSeq(forbiddenProperties, LAMBDA property : get(obj, property) \notin {Undefined, Null})

findForbidden(obj, forbiddenProperties) ==
  SelectSeq(forbiddenProperties, LAMBDA property : includes(keys(obj), property))

\* findUnrecognized without the test against the forbid-list
findUnrecognizedAllowedOnly(obj, allowedProperties, forbiddenProperties) ==
  SelectSeq(keys(obj), LAMBDA property : ~includes(allowedProperties, property))

findUnrecognized(obj, allowedProperties, forbiddenProperties) ==
  SelectSeq(keys(obj), LAMBDA property :
              /\ ~includes(allowedProperties, property)
              /\ ~includes(forbiddenProperties, property))

(***************************************************************************)
(* Identifiers in routes are strings: sequences of characters.             *)
(***************************************************************************)
Digits == {"0", "1", "2", "3", "4", "5", "6", "7", "8", "9"}

DigitValue(c) ==
  CASE c = "0" -> 0 [] c = "1" -> 1 [] c = "2" -> 2 [] c = "3" -> 3
    [] c = "4" -> 4 [] c = "5" -> 5 [] c = "6" -> 6 [] c = "7" -> 7
    [] c = "8" -> 8 [] c = "9" -> 9 [] OTHER -> 0

DigitChar(n) ==
  CASE n = 0 -> "0" [] n = 1 -> "1" [] n = 2 -> "2" [] n = 3 -> "3"
    [] n = 4 -> "4" [] n = 5 -> "5" [] n = 6 -> "6" [] n = 7 -> "7"
    [] n = 8 -> "8" [] OTHER -> "9"

\* new RegExp(/\D/).test(str)
nonDigitRegex(str) == \E i \in 1..Len(str) : str[i] \notin Digits

\* the integer a string of digits denotes (PostgreSQL's cast of a text
\* parameter to INTEGER, and Number.parseInt on a string of digits)
RECURSIVE parseInt(_)
parseInt(str) ==
  IF str = <<>> THEN 0
  ELSE 10 * parseInt(SubSeq(str, 1, Len(str) - 1)) + DigitValue(str[Len(str)])

\* Number.prototype.toString of a non-negative integer
RECURSIVE toString(_)
toString(n) ==
  IF n < 10 THEN <<DigitChar(n)>> ELSE toString(n \div 10) \o <<DigitChar(n % 10)>>

(***************************************************************************)
(* The tables (db/init.sql)                                                *)
(***************************************************************************)
RECURSIVE GCD(_, _)
GCD(a, b) == IF b = 0 THEN a ELSE GCD(b, a % b)

\* "averageRating" FLOAT: NULL, or a fraction of thousandths in lowest terms
NullAverage == [num |-> 0, den |-> 0]

Fraction(sum, count) ==
  IF count = 0 THEN NullAverage
  ELSE LET g == GCD(sum, count) IN
       IF g = 0 THEN [num |-> 0, den |-> 1]
       ELSE [num |-> sum \div g, den |-> count \div g]

RECURSIVE SumRatings(_)
SumRatings(rows) ==
  IF rows = {} THEN 0
  ELSE LET row == CHOOSE x \in rows : TRUE IN row.rating + SumRatings(rows \ {row})

RatingsOf(d, restaurantId) == {row \in d.ratings : row.restaurantId = restaurantId}
OrdersOf(d, restaurantId) == {row \in d.orders : row.restaurantId = restaurantId}
RestaurantRows(d, restaurantId) == {row \in d.restaurants : row.id = restaurantId}

\* SELECT AVG(rating) FROM ratings WHERE "restaurantId" = $1
AVG(d, restaurantId) ==
  Fraction(SumRatings(RatingsOf(d, restaurantId)), Cardinality(RatingsOf(d, restaurantId)))

SeedDb ==
  [restaurants |->
     {[id |-> 1, name |-> Str(<<"T">>), averageRating |-> Fraction(4830, 1),
       isKosher |-> Bool(FALSE),
       cuisines |-> Arr(<<Str(<<"A">>), Str(<<"M">>), Str(<<"I">>)>>),
       dishes |-> <<[id |-> <<"1">>, name |-> Str(<<"N">>),
                     description |-> Str(<<"A">>), price |-> Num(59000)]>>,
       nextDishId |-> 2]},
   ratings |-> {[id |-> 1, restaurantId |-> 1, rating |-> 4830]},
   orders |-> {}]

SeedSeqs == [restaurants |-> 2, ratings |-> 2, orders |-> 1]

\* DELETE FROM ratings WHERE "restaurantId" = $1
deleteRatingsQuery(d, id) == [d EXCEPT !.ratings = @ \ RatingsOf(d, id)]

\* DELETE FROM orders WHERE "restaurantId" = $1
deleteOrdersQuery(d, id) == [d EXCEPT !.orders = @ \ OrdersOf(d, id)]

\* DELETE FROM restaurants WHERE id = $1
deleteRestaurantQuery(d, id) == [d EXCEPT !.restaurants = @ \ RestaurantRows(d, id)]

\* REFERENCES restaurants(id) on ratings and orders: a referenced row
\* cannot be deleted, a row referencing no restaurant cannot be inserted
ReferencedRestaurant(d, id) == RatingsOf(d, id) # {} \/ OrdersOf(d, id) # {}

\* INSERT INTO ratings ("restaurantId", rating) VALUES ($1, $2)
addRatingQuery(d, rowId, restaurantId, rating) ==
  [d EXCEPT !.ratings = @ \cup {[id |-> rowId, restaurantId |-> restaurantId,
                                 rating |-> rating]}]

\* the constraints of ratings as they would be without the foreign key
RatingRowRefusedCheckOnly(d, restaurantId, rating) ==
  \/ rating < 0
  \/ rating > 5000

\* CHECK (rating >= 0 AND rating <= 5) and the foreign key of ratings
RatingRowRefused(d, restaurantId, rating) ==
  \/ RestaurantRows(d, restaurantId) = {}
  \/ rating < 0
  \/ rating > 5000

\* UPDATE restaurants SET "averageRating" = (SELECT AVG(rating) ...) WHERE id = $1
updateAverageRatingQuery(d, restaurantId) ==
  [d EXCEPT !.restaurants =
     {IF row.id = restaurantId
      THEN [row EXCEPT !.averageRating = AVG(d, restaurantId)]
      ELSE row : row \in @}]

(***************************************************************************)
(* The connection.  db/db exports one client; every module imports it, so  *)
(* every statement of every request runs on the same PostgreSQL session.   *)
(***************************************************************************)
\* whether the store may refuse the next statement for its own reasons
Inject == IF faults < MaxFaults THEN {FALSE, TRUE} ELSE {FALSE}

\* A statement: refused when the transaction is aborted, when a constraint
\* refuses it (err) or when the store fails (inj).  An error inside a
\* transaction aborts it, and what the transaction did is gone.
Statement(err, inj, newdb) ==
  LET failed == txn = "aborted" \/ err \/ inj IN
  [failed |-> failed,
   db |-> IF ~failed THEN newdb ELSE IF txn = "active" THEN snap ELSE db,
   txn |-> IF failed /\ txn = "active" THEN "aborted" ELSE txn]

\* BEGIN: opens a transaction; inside one it only warns; refused in an
\* aborted one
BeginStatement ==
  [failed |-> txn = "aborted",
   txn |-> IF txn = "idle" THEN "active" ELSE txn,
   snap |-> IF txn = "idle" THEN db ELSE snap]

\* COMMIT: ends the transaction; an aborted one is rolled back without an
\* error; outside a transaction it only warns
CommitStatement(inj) ==
  [failed |-> inj,
   txn |-> "idle",
   db |-> IF txn = "active" /\ inj THEN snap ELSE db]

\* ROLLBACK: ends the transaction and restores the tables; outside a
\* transaction it only warns
RollbackStatement ==
  [txn |-> "idle",
   db |-> IF txn = "active" THEN snap ELSE db]

(***************************************************************************)
(* Requests                                                                *)
(***************************************************************************)
PostRestaurant == "POST /restaurants"
PutRestaurant == "PUT /restaurants/:id"
DeleteRestaurant == "DELETE /restaurants/:id"
PostDish == "POST /restaurants/:id/dishes"
PutDish == "PUT /restaurants/:id/dishes/:dishId"
DeleteDish == "DELETE /restaurants/:id/dishes/:dishId"
PostRating == "POST /ratings"
PostOrder == "POST /order"

\* req.method
method(kind) ==
  CASE kind \in {PostRestaurant, PostDish, PostRating, PostOrder} -> "POST"
    [] kind \in {PutRestaurant, PutDish} -> "PUT"
    [] OTHER -> "DELETE"

Slots == 1..MaxInFlight

NoReq ==
  [kind |-> "none", id |-> <<>>, dishId |-> <<>>, body |-> <<>>,
   pc |-> "free", status |-> 0,
   restaurantDishes |-> <<>>, dishIndex |-> 0, nextDishId |-> 0,
   ins |-> {}, delRatings |-> {}, delOrders |-> {}, log |-> <<>>]

\* the middleware chain of each route, then the handler's first statement
Chain(kind) ==
  CASE kind = PostRestaurant ->
         <<"validateRestaurantReqBody", "addRestaurantQuery">>
    [] kind = PutRestaurant ->
         <<"validateIdParam", "validateRestaurantReqBody", "updateRestaurantQuery">>
    [] kind = DeleteRestaurant -> <<"validateIdParam", "BEGIN">>
    [] kind = PostDish ->
         <<"validateIdParam", "validateDishReqBody", "getDishesQuery">>
    [] kind = PutDish ->
         <<"validateIdParam", "validateDishReqBody", "validateDishIdParam",
           "updateDishesQuery">>
    [] kind = DeleteDish ->
         <<"validateIdParam", "validateDishIdParam", "deleteDishQuery">>
    [] kind = PostRating -> <<"validateIdInReqBody", "BEGIN">>
    [] kind = PostOrder ->
         <<"validateIdInReqBody", "validateOrderReqBody",
           "validateOrderDishesExistence", "addOrderQuery">>

\* next(): the stage after pc in the chain of the request's route
next(r) ==
  LET chain == Chain(r.kind)
      i == CHOOSE j \in 1..Len(chain) : chain[j] = r.pc
  IN [r EXCEPT !.pc = chain[i + 1]]

goto(r, pc) == [r EXCEPT !.pc = pc]

\* client.query(...): the request has handed a statement to the connection
query(r, statement) == [r EXCEPT !.log = Append(@, statement)]

\* res.status(status).send(...)
send(r, status) == [r EXCEPT !.pc = "done", !.status = status]

InFlight == {s \in Slots : reqs[s].pc # "free"}

Ids(rows) == {row.id : row \in rows}

\* the rows among `rows` that were committed before the open transaction, if
\* any, began
Committed(rows, table) == IF txn = "active" THEN rows \cap table ELSE rows

\* a request arrives and enters the first stage of its chain
Arrive(s, kind, id, dishId, body) ==
  /\ reqs[s].pc = "free"
  /\ \A t \in Slots : t < s => reqs[t].pc # "free"
  /\ started < MaxRequests
  /\ kind = PostRestaurant =>
       seqs.restaurants + Cardinality({t \in Slots : reqs[t].kind = PostRestaurant})
         <= MaxRestaurants
  /\ started' = started + 1
  /\ reqs' = [reqs EXCEPT ![s] = [NoReq EXCEPT !.kind = kind, !.id = id,
                                    !.dishId = dishId, !.body = body,
                                    !.pc = Chain(kind)[1]]]
  /\ UNCHANGED <<db, snap, txn, seqs, faults, input, output>>

\* the answer has been sent; the request is forgotten
Retire(s) ==
  /\ reqs[s].pc = "done"
  /\ reqs' = [reqs EXCEPT ![s] = NoReq]
  /\ UNCHANGED <<db, snap, txn, seqs, started, faults, input, output>>

(***************************************************************************)
(* Existence checkers (middleware)                                         *)
(***************************************************************************)
validateIdParamMiddleware(s) ==
  /\ reqs[s].pc = "validateIdParam"
  /\ LET r == reqs[s] IN
     IF r.id = <<"0">> \/ nonDigitRegex(r.id)
     THEN /\ reqs' = [reqs EXCEPT ![s] = send(r, 400)]
          /\ UNCHANGED <<db, snap, txn, seqs, started, faults, input, output>>
     ELSE \E inj \in Inject :
            LET q == Statement(FALSE, inj, db)
                rowCount == Cardinality(RestaurantRows(db, parseInt(r.id)))
            IN /\ db' = q.db
               /\ txn' = q.txn
               /\ faults' = faults + (IF inj THEN 1 ELSE 0)
               /\ reqs' = [reqs EXCEPT ![s] =
                             IF q.failed THEN send(query(r, "SELECT"), 500)
                             ELSE IF rowCount = 0 THEN send(query(r, "SELECT"), 404)
                             ELSE next(query(r, "SELECT"))]
               /\ UNCHANGED <<snap, seqs, started, input, output>>

validateIdInReqBodyMiddleware(s) ==
  /\ reqs[s].pc = "validateIdInReqBody"
  /\ LET r == reqs[s]
         restaurantId == get(r.body, "restaurantId")
     IN
     IF \/ restaurantId = Undefined
        \/ typeof(restaurantId) # "number"
        \/ ~isInteger(restaurantId)
        \/ restaurantId.n < 1000
     THEN /\ reqs' = [reqs EXCEPT ![s] = send(r, 400)]
          /\ UNCHANGED <<db, snap, txn, seqs, started, faults, input, output>>
     ELSE \E inj \in Inject :
            LET q == Statement(FALSE, inj, db)
                rowCount == Cardinality(RestaurantRows(db, restaurantId.n \div 1000))
            IN /\ db' = q.db
               /\ txn' = q.txn
               /\ faults' = faults + (IF inj THEN 1 ELSE 0)
               /\ reqs' = [reqs EXCEPT ![s] =
                             IF q.failed THEN send(query(r, "SELECT"), 500)
                             ELSE IF rowCount = 0 THEN send(query(r, "SELECT"), 404)
                             ELSE next(query(r, "SELECT"))]
               /\ UNCHANGED <<snap, seqs, started, input, output>>

(***************************************************************************)
(* Field validators (middleware): 0 stands for next(), any other result is *)
(* the status the middleware answers with                                  *)
(***************************************************************************)
nonEmptyString(v) == typeof(v) = "string" /\ Len(trim(v.s)) # 0

validateRestaurantReqBody(reqMethod, body) ==
  LET name == get(body, "name")
      isKosher == get(body, "isKosher")
      cuisines == get(body, "cuisines")
      allowedProperties == <<"name", "isKosher", "cuisines">>
      forbiddenProperties == <<"id", "averageRating", "dishes", "nextDishId">>
  IN
  IF reqMethod = "PUT" /\ Len(keys(body)) = 0 THEN 200
  ELSE IF reqMethod = "POST" /\ Len(findMissing(body, allowedProperties)) > 0 THEN 400
  ELSE IF Len(findForbidden(body, forbiddenProperties)) > 0 THEN 422
  ELSE IF Len(findUnrecognized(body, allowedProperties, forbiddenProperties)) > 0
  THEN 400
  ELSE IF name # Undefined /\ ~nonEmptyString(name) THEN 400
  ELSE IF isKosher # Undefined /\ typeof(isKosher) # "boolean" THEN 400
  ELSE IF /\ cuisines # Undefined
          /\ \/ ~isArray(cuisines)
             \/ \E i \in 1..Len(cuisines.a) : ~nonEmptyString(cuisines.a[i])
  THEN 400
  ELSE IF isArray(cuisines) /\ Len(cuisines.a) = 0 THEN 400
  ELSE 0

\* validateDishReqBody without the early answer to an empty PUT payload
validateDishReqBodyNoEarlyAnswer(reqMethod, body) ==
  LET name == get(body, "name")
      description == get(body, "description")
      price == get(body, "price")
      allowedProperties == <<"name", "description", "price">>
      forbiddenProperties == <<"id">>
  IN
  IF reqMethod = "POST" /\ Len(findMissing(body, allowedProperties)) > 0 THEN 400
  ELSE IF Len(findForbidden(body, forbiddenProperties)) > 0 THEN 422
  ELSE IF Len(findUnrecognized(body, allowedProperties, forbiddenProperties)) > 0
  THEN 400
  ELSE IF name # Undefined /\ ~nonEmptyString(name) THEN 400
  ELSE IF description # Undefined /\ typeof(description) # "string" THEN 400
  ELSE IF \/ (price # Undefined /\ typeof(price) # "number")
          \/ (typeof(price) = "number" /\ price.n < 0)
  THEN 400
  ELSE 0

validateDishReqBody(reqMethod, body) ==
  LET name == get(body, "name")
      description == get(body, "description")
      price == get(body, "price")
      allowedProperties == <<"name", "description", "price">>
      forbiddenProperties == <<"id">>
  IN
  IF reqMethod = "PUT" /\ Len(keys(body)) = 0 THEN 200
  ELSE IF reqMethod = "POST" /\ Len(findMissing(body, allowedProperties)) > 0 THEN 400
  ELSE IF Len(findForbidden(body, forbiddenProperties)) > 0 THEN 422
  ELSE IF Len(findUnrecognized(body, allowedProperties, forbiddenProperties)) > 0
  THEN 400
  ELSE IF name # Undefined /\ ~nonEmptyString(name) THEN 400
  ELSE IF description # Undefined /\ typeof(description) # "string" THEN 400
  ELSE IF \/ (price # Undefined /\ typeof(price) # "number")
          \/ (typeof(price) = "number" /\ price.n < 0)
  THEN 400
  ELSE 0

\* a middleware that only inspects the request: it answers or calls next()
Inspect(s, verdict) ==
  /\ reqs' = [reqs EXCEPT ![s] = IF verdict = 0 THEN next(reqs[s])
                                 ELSE send(reqs[s], verdict)]
  /\ UNCHANGED <<db, snap, txn, seqs, started, faults, input, output>>

validateRestaurantReqBodyMiddleware(s) ==
  /\ reqs[s].pc = "validateRestaurantReqBody"
  /\ Inspect(s, validateRestaurantReqBody(method(reqs[s].kind), reqs[s].body))

validateDishReqBodyMiddleware(s) ==
  /\ reqs[s].pc = "validateDishReqBody"
  /\ Inspect(s, validateDishReqBody(method(reqs[s].kind), reqs[s].body))

\* Array.prototype.findIndex on dish.id === dishId, counted from 1; 0 for -1
findIndex(dishes, dishId) ==
  IF \E i \in 1..Len(dishes) : dishes[i].id = dishId
  THEN CHOOSE i \in 1..Len(dishes) :
         /\ dishes[i].id = dishId
         /\ \A j \in 1..(i - 1) : dishes[j].id # dishId
  ELSE 0

validateDishIdParamMiddleware(s) ==
  /\ reqs[s].pc = "validateDishIdParam"
  /\ LET r == reqs[s] IN
     IF r.dishId = <<"0">> \/ nonDigitRegex(r.dishId)
     THEN /\ reqs' = [reqs EXCEPT ![s] = send(r, 400)]
          /\ UNCHANGED <<db, snap, txn, seqs, started, faults, input, output>>
     ELSE \E inj \in Inject :
            LET q == Statement(FALSE, inj, db)
                rows == RestaurantRows(db, parseInt(r.id))
                dishes == (CHOOSE row \in rows : TRUE).dishes
                dishIndex == findIndex(dishes, r.dishId)
                asked == query(r, "SELECT")
            IN /\ db' = q.db
               /\ txn' = q.txn
               /\ faults' = faults + (IF inj THEN 1 ELSE 0)
               /\ reqs' = [reqs EXCEPT ![s] =
                             IF q.failed \/ rows = {} THEN send(asked, 500)
                             ELSE IF dishIndex = 0 THEN send(asked, 404)
                             ELSE next([asked EXCEPT !.restaurantDishes = dishes,
                                                     !.dishIndex = dishIndex])]
               /\ UNCHANGED <<snap, seqs, started, input, output>>

(***************************************************************************)
(* Handlers of restaurantsController that issue one write                  *)
(***************************************************************************)
\* one statement of a handler without a transaction of its own: on an error
\* the handler answers 500
Plain(s, q, inj, statement, after) ==
  /\ db' = q.db
  /\ txn' = q.txn
  /\ faults' = faults + (IF inj THEN 1 ELSE 0)
  /\ reqs' = [reqs EXCEPT ![s] =
                IF q.failed THEN send(query(reqs[s], statement), 500)
                ELSE query(after, statement)]
  /\ UNCHANGED <<snap, started, input, output>>

\* INSERT INTO restaurants (name, "isKosher", cuisines) VALUES ($1, $2, $3)
addRestaurantQuery(d, rowId, name, isKosher, cuisines) ==
  [d EXCEPT !.restaurants = @ \cup
     {[id |-> rowId, name |-> name, averageRating |-> NullAverage,
       isKosher |-> isKosher, cuisines |-> cuisines,
       dishes |-> <<>>, nextDishId |-> 1]}]

addRestaurant(s) ==
  /\ reqs[s].pc = "addRestaurantQuery"
  /\ \E inj \in Inject :
       LET r == reqs[s]
           q == Statement(FALSE, inj,
                          addRestaurantQuery(db, seqs.restaurants, get(r.body, "name"),
                                             get(r.body, "isKosher"),
                                             get(r.body, "cuisines")))
       IN /\ Plain(s, q, inj, "INSERT", send(r, 201))
          /\ seqs' = IF txn = "aborted" \/ inj THEN seqs
                     ELSE [seqs EXCEPT !.restaurants = @ + 1]

\* the update composer of PUT /restaurants/:id
allowedRestaurantProperties == <<"name", "isKosher", "cuisines">>

\* columnsToUpdate taken from the payload's keys, in the payload's order
columnsToUpdateInPayloadOrder(body) ==
  SelectSeq(keys(body), LAMBDA property : includes(allowedRestaurantProperties, property))

columnsToUpdate(body) ==
  SelectSeq(allowedRestaurantProperties, LAMBDA property : includes(keys(body), property))

\* `"${columnName}" = $${index + 2}` for index = 0, 1, ...
setClauseComponents(body) ==
  [i \in 1..Len(columnsToUpdate(body)) |->
     [column |-> columnsToUpdate(body)[i], placeholder |-> (i - 1) + 2]]

setClauseParameters(body) ==
  [i \in 1..Len(columnsToUpdate(body)) |-> get(body, columnsToUpdate(body)[i])]

updateRestaurantQuery(id, body) ==
  [text |-> setClauseComponents(body),
   values |-> <<id>> \o setClauseParameters(body)]

\* UPDATE restaurants SET <text> WHERE id = $1, with $n bound to values[n]
RECURSIVE SetColumns(_, _, _)
SetColumns(row, text, values) ==
  IF text = <<>> THEN row
  ELSE SetColumns([row EXCEPT ![Head(text).column] = values[Head(text).placeholder]],
                  Tail(text), values)

ExecuteUpdate(d, q) ==
  [d EXCEPT !.restaurants =
     {IF row.id = parseInt(q.values[1]) THEN SetColumns(row, q.text, q.values)
      ELSE row : row \in @}]

updateRestaurant(s) ==
  /\ reqs[s].pc = "updateRestaurantQuery"
  /\ LET r == reqs[s] IN
     IF \A i \in 1..Len(allowedRestaurantProperties) :
          get(r.body, allowedRestaurantProperties[i]) = Undefined
     THEN /\ reqs' = [reqs EXCEPT ![s] = send(r, 200)]
          /\ UNCHANGED <<db, snap, txn, seqs, started, faults, input, output>>
     ELSE \E inj \in Inject :
            /\ Plain(s, Statement(FALSE, inj,
                                  ExecuteUpdate(db, updateRestaurantQuery(r.id, r.body))),
                     inj, "UPDATE", send(r, 200))
            /\ UNCHANGED seqs

\* Math.round(num * 10 ** numOfDecimalPlaces) / 10 ** numOfDecimalPlaces, on
\* thousandths and for at most 3 decimal places; Math.round rounds halves up
roundToDp(num, numOfDecimalPlaces) ==
  LET unit == 10 ^ (3 - numOfDecimalPlaces)
  IN ((2 * num + unit) \div (2 * unit)) * unit

\* UPDATE restaurants SET dishes = $1 WHERE id = $2
setDishes(d, id, dishes) ==
  [d EXCEPT !.restaurants =
     {IF row.id = id THEN [row EXCEPT !.dishes = dishes] ELSE row : row \in @}]

\* UPDATE restaurants SET dishes = $1, "nextDishId" = $2 WHERE id = $3
addDishQuery(d, id, dishes, nextDishId) ==
  [d EXCEPT !.restaurants =
     {IF row.id = id THEN [row EXCEPT !.dishes = dishes, !.nextDishId = nextDishId]
      ELSE row : row \in @}]

\* SELECT dishes, "nextDishId" FROM restaurants WHERE id = $1
getDishes(s) ==
  /\ reqs[s].pc = "getDishesQuery"
  /\ \E inj \in Inject :
       LET r == reqs[s]
           rows == RestaurantRows(db, parseInt(r.id))
           row == CHOOSE x \in rows : TRUE
           q == Statement(FALSE, inj, db)
       IN /\ Plain(s, [q EXCEPT !.failed = @ \/ rows = {}], inj, "SELECT",
                   [goto(r, "addDishQuery") EXCEPT !.restaurantDishes = row.dishes,
                                                    !.nextDishId = row.nextDishId])
          /\ UNCHANGED seqs

addDish(s) ==
  /\ reqs[s].pc = "addDishQuery"
  /\ \E inj \in Inject :
       LET r == reqs[s]
           newDish == [id |-> toString(r.nextDishId),
                       name |-> get(r.body, "name"),
                       description |-> get(r.body, "description"),
                       price |-> Num(roundToDp(get(r.body, "price").n, 2))]
           q == Statement(FALSE, inj,
                          addDishQuery(db, parseInt(r.id),
                                       Append(r.restaurantDishes, newDish),
                                       r.nextDishId + 1))
       IN /\ Plain(s, q, inj, "UPDATE", send(r, 201))
          /\ UNCHANGED seqs

allowedDishProperties == <<"name", "description", "price">>

\* { ...dishToUpdate, ...updatedDishProperties }
updatedDish(dishToUpdate, body) ==
  [property \in DOMAIN dishToUpdate |->
     IF includes(allowedDishProperties, property) /\ includes(keys(body), property)
     THEN get(body, property)
     ELSE dishToUpdate[property]]

\* splice(dishIndex, ...replacement) without its delete count: it removes
\* every dish from dishIndex on
spliceToEnd(dishes, dishIndex, replacement) ==
  SubSeq(dishes, 1, dishIndex - 1) \o replacement

\* restaurantDishes.slice() with splice(dishIndex, 1, ...replacement)
splice(dishes, dishIndex, replacement) ==
  SubSeq(dishes, 1, dishIndex - 1) \o replacement \o SubSeq(dishes, dishIndex + 1, Len(dishes))

updateDishes(s) ==
  /\ reqs[s].pc = "updateDishesQuery"
  /\ LET r == reqs[s] IN
     IF \A i \in 1..Len(allowedDishProperties) :
          get(r.body, allowedDishProperties[i]) = Undefined
     THEN /\ reqs' = [reqs EXCEPT ![s] = send(r, 200)]
          /\ UNCHANGED <<db, snap, txn, seqs, started, faults, input, output>>
     ELSE \E inj \in Inject :
            LET updatedDishes ==
                  splice(r.restaurantDishes, r.dishIndex,
                         <<updatedDish(r.restaurantDishes[r.dishIndex], r.body)>>)
            IN /\ Plain(s, Statement(FALSE, inj,
                                     setDishes(db, parseInt(r.id), updatedDishes)),
                        inj, "UPDATE", send(r, 200))
               /\ UNCHANGED seqs

deleteDish(s) ==
  /\ reqs[s].pc = "deleteDishQuery"
  /\ \E inj \in Inject :
       LET r == reqs[s]
           updatedDishes == splice(r.restaurantDishes, r.dishIndex, <<>>)
       IN /\ Plain(s, Statement(FALSE, inj,
                                setDishes(db, parseInt(r.id), updatedDishes)),
                   inj, "UPDATE", send(r, 204))
          /\ UNCHANGED seqs

(***************************************************************************)
(* POST /order (orderController)                                           *)
(***************************************************************************)
allowedOrderItemProperties == <<"dishId", "amount">>

positiveInteger(v) == typeof(v) = "number" /\ isInteger(v) /\ v.n >= 1000

\* the checks of the loop body on orderItems[i]; 500 stands for the
\* TypeError that reading a property of null throws inside the try block
orderItemVerdict(orderItem) ==
  IF typeof(orderItem) # "object" THEN 400
  ELSE IF orderItem = Null THEN 500
  ELSE IF Len(findMissing(orderItem.o, allowedOrderItemProperties)) > 0 THEN 400
  ELSE IF Len(findUnrecognized(orderItem.o, allowedOrderItemProperties, <<>>)) > 0
  THEN 400
  ELSE IF ~positiveInteger(get(orderItem.o, "dishId")) THEN 400
  ELSE IF ~positiveInteger(get(orderItem.o, "amount")) THEN 400
  ELSE 0

validateOrderReqBody(body) ==
  LET orderItems == get(body, "orderItems")
      allowedProperties == <<"restaurantId", "orderItems">>
      forbiddenProperties == <<"id">>
      bad == {i \in 1..Len(orderItems.a) : orderItemVerdict(orderItems.a[i]) # 0}
  IN
  IF Len(findMissing(body, allowedProperties)) > 0 THEN 400
  ELSE IF Len(findForbidden(body, forbiddenProperties)) > 0 THEN 422
  ELSE IF Len(findUnrecognized(body, allowedProperties, forbiddenProperties)) > 0
  THEN 400
  ELSE IF ~isArray(orderItems) \/ Len(orderItems.a) = 0 THEN 400
  ELSE IF bad # {}
  THEN orderItemVerdict(orderItems.a[CHOOSE i \in bad : \A j \in bad : i <= j])
  ELSE 0

validateOrderReqBodyMiddleware(s) ==
  /\ reqs[s].pc = "validateOrderReqBody"
  /\ Inspect(s, validateOrderReqBody(reqs[s].body))

\* the OrderItem objects of a validated body
OrderItems(body) ==
  LET orderItems == get(body, "orderItems").a IN
  [i \in 1..Len(orderItems) |->
     [dishId |-> get(orderItems[i].o, "dishId").n \div 1000,
      amount |-> get(orderItems[i].o, "amount").n \div 1000]]

\* the check as it would be if one listed dish sufficed
validateOrderDishesExistenceAnyDish(s) ==
  /\ reqs[s].pc = "validateOrderDishesExistence"
  /\ \E inj \in Inject :
       LET r == reqs[s]
           q == Statement(FALSE, inj, db)
           rows == RestaurantRows(db, get(r.body, "restaurantId").n \div 1000)
           restaurantDishes == (CHOOSE row \in rows : TRUE).dishes
           restaurantDishesIdSet ==
             {parseInt(restaurantDishes[i].id) : i \in 1..Len(restaurantDishes)}
           missingOrderItems ==
             SelectSeq(OrderItems(r.body),
                       LAMBDA orderItem : orderItem.dishId \notin restaurantDishesIdSet)
           asked == query(r, "SELECT")
       IN /\ db' = q.db
          /\ txn' = q.txn
          /\ faults' = faults + (IF inj THEN 1 ELSE 0)
          /\ reqs' = [reqs EXCEPT ![s] =
                        IF q.failed \/ rows = {} THEN send(asked, 500)
                        ELSE IF Len(missingOrderItems) = Len(OrderItems(r.body)) THEN send(asked, 404)
                        ELSE next(asked)]
          /\ UNCHANGED <<snap, seqs, started, input, output>>

validateOrderDishesExistenceMiddleware(s) ==
  /\ reqs[s].pc = "validateOrderDishesExistence"
  /\ \E inj \in Inject :
       LET r == reqs[s]
           q == Statement(FALSE, inj, db)
           rows == RestaurantRows(db, get(r.body, "restaurantId").n \div 1000)
           restaurantDishes == (CHOOSE row \in rows : TRUE).dishes
           restaurantDishesIdSet ==
             {parseInt(restaurantDishes[i].id) : i \in 1..Len(restaurantDishes)}
           missingOrderItems ==
             SelectSeq(OrderItems(r.body),
                       LAMBDA orderItem : orderItem.dishId \notin restaurantDishesIdSet)
           asked == query(r, "SELECT")
       IN /\ db' = q.db
          /\ txn' = q.txn
          /\ faults' = faults + (IF inj THEN 1 ELSE 0)
          /\ reqs' = [reqs EXCEPT ![s] =
                        IF q.failed \/ rows = {} THEN send(asked, 500)
                        ELSE IF Len(missingOrderItems) > 0 THEN send(asked, 404)
                        ELSE next(asked)]
          /\ UNCHANGED <<snap, seqs, started, input, output>>

\* orderItems.reduce(...): the order normalizer
RECURSIVE reduce(_, _)
reduce(accumulator, orderItems) ==
  IF orderItems = <<>> THEN accumulator
  ELSE LET current == Head(orderItems)
           found == {i \in 1..Len(accumulator) : accumulator[i].dishId = current.dishId}
           existingItemIndex == IF found = {} THEN 0
                                ELSE CHOOSE i \in found : \A j \in found : i <= j
       IN reduce(IF existingItemIndex = 0 THEN Append(accumulator, current)
                 ELSE [accumulator EXCEPT ![existingItemIndex].amount = @ + current.amount],
                 Tail(orderItems))

\* the reducer with `=` in place of `+=`
RECURSIVE reduceOverwriting(_, _)
reduceOverwriting(accumulator, orderItems) ==
  IF orderItems = <<>> THEN accumulator
  ELSE LET current == Head(orderItems)
           found == {i \in 1..Len(accumulator) : accumulator[i].dishId = current.dishId}
           existingItemIndex == IF found = {} THEN 0
                                ELSE CHOOSE i \in found : \A j \in found : i <= j
       IN reduceOverwriting(
            IF existingItemIndex = 0 THEN Append(accumulator, current)
            ELSE [accumulator EXCEPT ![existingItemIndex].amount = current.amount],
            Tail(orderItems))

combinedOrderItemsOverwriting(orderItems) == reduceOverwriting(<<>>, orderItems)

combinedOrderItems(orderItems) == reduce(<<>>, orderItems)

\* the columns of table orders, and the column the INSERT asks to be returned
OrdersColumns == {"id", "restaurantId", "orderItems"}
Returning == "orderId"

\* INSERT INTO orders ("restaurantId", "orderItems") VALUES ($1, $2) RETURNING ...
addOrderQuery(d, rowId, restaurantId, orderItems) ==
  [d EXCEPT !.orders = @ \cup {[id |-> rowId, restaurantId |-> restaurantId,
                                orderItems |-> orderItems]}]

addOrder(s) ==
  /\ reqs[s].pc = "addOrderQuery"
  /\ \E inj \in Inject :
       LET r == reqs[s]
           restaurantId == get(r.body, "restaurantId").n \div 1000
           refused == \/ Returning \notin OrdersColumns
                      \/ RestaurantRows(db, restaurantId) = {}
           q == Statement(refused, inj,
                          addOrderQuery(db, seqs.orders, restaurantId,
                                        combinedOrderItems(OrderItems(r.body))))
       IN /\ Plain(s, q, inj, "INSERT", send([r EXCEPT !.ins = {seqs.orders}], 200))
          /\ seqs' = IF q.failed THEN seqs ELSE [seqs EXCEPT !.orders = @ + 1]

(***************************************************************************)
(* Transactional handlers: DELETE /restaurants/:id and POST /ratings       *)
(***************************************************************************)
\* the handler's validation of rating, which runs before its BEGIN
ratingRejected(body) ==
  LET rating == get(body, "rating") IN
  \/ typeof(rating) = "undefined"
  \/ typeof(rating) # "number"
  \/ rating.n < 0
  \/ rating.n > 5000

\* the handler as it would be if it validated rating after its BEGIN
BEGINBeforeValidation(s) ==
  /\ reqs[s].pc = "BEGIN"
  /\ LET r == reqs[s]
         q == BeginStatement
     IN /\ txn' = q.txn
        /\ snap' = q.snap
        /\ reqs' = [reqs EXCEPT ![s] =
                      IF q.failed THEN goto(query(r, "BEGIN"), "ROLLBACK")
                      ELSE IF r.kind = PostRating /\ ratingRejected(r.body)
                      THEN send(query(r, "BEGIN"), 400)
                      ELSE IF r.kind = PostRating
                      THEN goto(query(r, "BEGIN"), "addRatingQuery")
                      ELSE goto(query(r, "BEGIN"), "deleteRatingsQuery")]
        /\ UNCHANGED <<db, seqs, started, faults, input, output>>

\* await client.query("BEGIN")
BEGIN(s) ==
  /\ reqs[s].pc = "BEGIN"
  /\ LET r == reqs[s] IN
     IF r.kind = PostRating /\ ratingRejected(r.body)
     THEN /\ reqs' = [reqs EXCEPT ![s] = send(r, 400)]
          /\ UNCHANGED <<db, snap, txn, seqs, started, faults, input, output>>
     ELSE LET q == BeginStatement IN
          /\ txn' = q.txn
          /\ snap' = q.snap
          /\ reqs' = [reqs EXCEPT ![s] =
                        IF q.failed THEN goto(query(r, "BEGIN"), "ROLLBACK")
                        ELSE IF r.kind = PostRating
                        THEN goto(query(r, "BEGIN"), "addRatingQuery")
                        ELSE goto(query(r, "BEGIN"), "deleteRatingsQuery")]
          /\ UNCHANGED <<db, seqs, started, faults, input, output>>

\* one data statement of a handler: the tables and the connection after it
Run(s, q, inj, statement, after) ==
  /\ db' = q.db
  /\ txn' = q.txn
  /\ faults' = faults + (IF inj THEN 1 ELSE 0)
  /\ reqs' = [reqs EXCEPT ![s] =
                IF q.failed THEN goto(query(reqs[s], statement), "ROLLBACK")
                ELSE query(after, statement)]
  /\ UNCHANGED <<snap, started, input, output>>

deleteRatings(s) ==
  /\ reqs[s].pc = "deleteRatingsQuery"
  /\ \E inj \in Inject :
       LET r == reqs[s]
           id == parseInt(r.id)
       IN /\ Run(s, Statement(FALSE, inj, deleteRatingsQuery(db, id)), inj, "DELETE",
                 [goto(r, "deleteOrdersQuery") EXCEPT
                    !.delRatings = Ids(Committed(RatingsOf(db, id), snap.ratings))])
          /\ UNCHANGED seqs

deleteOrders(s) ==
  /\ reqs[s].pc = "deleteOrdersQuery"
  /\ \E inj \in Inject :
       LET r == reqs[s]
           id == parseInt(r.id)
       IN /\ Run(s, Statement(FALSE, inj, deleteOrdersQuery(db, id)), inj, "DELETE",
                 [goto(r, "deleteRestaurantQuery") EXCEPT
                    !.delOrders = Ids(Committed(OrdersOf(db, id), snap.orders))])
          /\ UNCHANGED seqs

deleteRestaurant(s) ==
  /\ reqs[s].pc = "deleteRestaurantQuery"
  /\ \E inj \in Inject :
       LET r == reqs[s]
           id == parseInt(r.id)
       IN /\ Run(s, Statement(ReferencedRestaurant(db, id), inj,
                              deleteRestaurantQuery(db, id)), inj, "DELETE",
                 goto(r, "COMMIT"))
          /\ UNCHANGED seqs

addRating(s) ==
  /\ reqs[s].pc = "addRatingQuery"
  /\ \E inj \in Inject :
       LET r == reqs[s]
           restaurantId == get(r.body, "restaurantId").n \div 1000
           rating == get(r.body, "rating").n
           q == Statement(RatingRowRefused(db, restaurantId, rating), inj,
                          addRatingQuery(db, seqs.ratings, restaurantId, rating))
       IN /\ Run(s, q, inj, "INSERT",
                 [goto(r, "updateAverageRatingQuery") EXCEPT !.ins = {seqs.ratings}])
          /\ seqs' = IF txn = "aborted" \/ inj THEN seqs
                     ELSE [seqs EXCEPT !.ratings = @ + 1]

updateAverageRating(s) ==
  /\ reqs[s].pc = "updateAverageRatingQuery"
  /\ \E inj \in Inject :
       LET r == reqs[s]
           restaurantId == get(r.body, "restaurantId").n \div 1000
       IN /\ Run(s, Statement(FALSE, inj, updateAverageRatingQuery(db, restaurantId)),
                 inj, "UPDATE", goto(r, "COMMIT"))
          /\ UNCHANGED seqs

\* await client.query("COMMIT"), then the answer
COMMIT(s) ==
  /\ reqs[s].pc = "COMMIT"
  /\ \E inj \in Inject :
       LET r == reqs[s]
           q == CommitStatement(inj)
       IN /\ db' = q.db
          /\ txn' = q.txn
          /\ faults' = faults + (IF inj THEN 1 ELSE 0)
          /\ reqs' = [reqs EXCEPT ![s] =
                        IF q.failed THEN goto(query(r, "COMMIT"), "ROLLBACK")
                        ELSE send(query(r, "COMMIT"),
                                  IF r.kind = PostRating THEN 200 ELSE 204)]
          /\ UNCHANGED <<snap, seqs, started, input, output>>

\* catch (err): await client.query("ROLLBACK"), then 500.  The await stands
\* in the catch block itself: when the store fails the ROLLBACK the handler's
\* promise is rejected with nothing left to catch it, and no response is sent
ROLLBACK(s) ==
  /\ reqs[s].pc = "ROLLBACK"
  /\ \E inj \in Inject :
       LET q == RollbackStatement IN
       /\ db' = IF inj THEN db ELSE q.db
       /\ txn' = IF inj THEN txn ELSE q.txn
       /\ faults' = faults + (IF inj THEN 1 ELSE 0)
       /\ reqs' = [reqs EXCEPT ![s] =
                     IF inj THEN goto(query(reqs[s], "ROLLBACK"), "unanswered")
                     ELSE send(query(reqs[s], "ROLLBACK"), 500)]
       /\ UNCHANGED <<snap, seqs, started, input, output>>

(***************************************************************************)
(* The server                                                              *)
(***************************************************************************)
Prop(k, v) == [k |-> k, v |-> v]
Item(dishId, amount) == Obj(<<Prop("dishId", Num(dishId * 1000)), Prop("amount", Num(amount * 1000))>>)
Request(kind, id, dishId, body) == [kind |-> kind, id |-> id, dishId |-> dishId, body |-> body]

\* the requests that arrive while others are in flight
Traffic ==
  {Request(DeleteRestaurant, <<"1">>, <<>>, <<>>),
   Request(PostRating, <<>>, <<>>,
           <<Prop("restaurantId", Num(1000)), Prop("rating", Num(5000))>>),
   Request(PostRestaurant, <<>>, <<>>,
           <<Prop("name", Str(<<"B">>)), Prop("isKosher", Bool(TRUE)),
             Prop("cuisines", Arr(<<Str(<<"F">>)>>))>>),
   Request(PutRestaurant, <<"1">>, <<>>, <<Prop("isKosher", Bool(TRUE))>>),
   Request(PostDish, <<"1">>, <<>>,
           <<Prop("name", Str(<<"S">>)), Prop("description", Str(<<>>)),
             Prop("price", Num(12345))>>),
   Request(PutDish, <<"1">>, <<"1">>, <<Prop("price", Num(60000))>>),
   Request(DeleteDish, <<"1">>, <<"1">>, <<>>),
   Request(PostOrder, <<>>, <<>>,
           <<Prop("restaurantId", Num(1000)),
             Prop("orderItems", Arr(<<Item(1, 2), Item(1, 3)>>))>>)}

Init ==
  /\ db = SeedDb
  /\ snap = SeedDb
  /\ txn = "idle"
  /\ seqs = SeedSeqs
  /\ reqs = [s \in Slots |-> NoReq]
  /\ started = 0
  /\ faults = 0
  /\ input = NotRun
  /\ output = NotRun

\* a step of the middleware chain or of the handler of the request in slot s
Handle(s) ==
  \/ validateIdParamMiddleware(s)
  \/ validateIdInReqBodyMiddleware(s)
  \/ validateRestaurantReqBodyMiddleware(s)
  \/ validateDishReqBodyMiddleware(s)
  \/ validateDishIdParamMiddleware(s)
  \/ validateOrderReqBodyMiddleware(s)
  \/ validateOrderDishesExistenceMiddleware(s)
  \/ addRestaurant(s)
  \/ updateRestaurant(s)
  \/ getDishes(s)
  \/ addDish(s)
  \/ updateDishes(s)
  \/ deleteDish(s)
  \/ addOrder(s)
  \/ BEGIN(s)
  \/ deleteRatings(s)
  \/ deleteOrders(s)
  \/ deleteRestaurant(s)
  \/ addRating(s)
  \/ updateAverageRating(s)
  \/ COMMIT(s)
  \/ ROLLBACK(s)
  \/ Retire(s)

Next ==
  \/ \E s \in Slots, t \in Traffic : Arrive(s, t.kind, t.id, t.dishId, t.body)
  \/ \E s \in Slots : Handle(s)

\* the server with any number of requests in flight
Spec == Init /\ [][Next]_vars

\* the same server where the event loop runs every continuation whose awaited
\* statement has resolved: no request in flight waits for ever for its turn
SpecLive == Spec /\ \A s \in Slots : WF_vars(Handle(s))

\* the partial updates that arrive while others are in flight
Updates ==
  {Request(PutRestaurant, <<"1">>, <<>>, <<>>),
   Request(PutRestaurant, <<"1">>, <<>>, <<Prop("id", Num(7000))>>),
   Request(PutRestaurant, <<"1">>, <<>>, <<Prop("foo", Null)>>),
   Request(PutRestaurant, <<"1">>, <<>>,
           <<Prop("cuisines", Arr(<<Str(<<"F">>)>>)), Prop("name", Str(<<"B">>))>>),
   Request(PutRestaurant, <<"2">>, <<>>, <<>>),
   Request(PutRestaurant, <<"1", "x">>, <<>>, <<>>),
   Request(PutDish, <<"1">>, <<"1">>, <<>>),
   Request(PutDish, <<"1">>, <<"9">>, <<>>),
   Request(PutDish, <<"1">>, <<"1">>, <<Prop("id", Str(<<"3">>))>>),
   Request(PutDish, <<"1">>, <<"1">>, <<Prop("foo", Bool(TRUE))>>),
   Request(PutDish, <<"1">>, <<"1">>, <<Prop("price", Num(60000))>>)}

HandleUpdates(s) ==
  \/ validateIdParamMiddleware(s)
  \/ validateRestaurantReqBodyMiddleware(s)
  \/ validateDishReqBodyMiddleware(s)
  \/ validateDishIdParamMiddleware(s)
  \/ updateRestaurant(s)
  \/ updateDishes(s)
  \/ Retire(s)

NextUpdates ==
  \/ \E s \in Slots, t \in Updates : Arrive(s, t.kind, t.id, t.dishId, t.body)
  \/ \E s \in Slots : HandleUpdates(s)

\* the server under partial updates of restaurants and dishes
SpecUpdates == Init /\ [][NextUpdates]_vars

\* payload fragments of the requests below
ValidRestaurant ==
  <<Prop("name", Str(<<"B">>)), Prop("isKosher", Bool(TRUE)),
    Prop("cuisines", Arr(<<Str(<<"F">>)>>))>>

ValidDish ==
  <<Prop("name", Str(<<"S">>)), Prop("description", Str(<<>>)),
    Prop("price", Num(12000))>>

ValidOrder ==
  <<Prop("restaurantId", Num(1000)), Prop("orderItems", Arr(<<Item(1, 2)>>))>>

ValidRating == <<Prop("restaurantId", Num(1000)), Prop("rating", Num(5000))>>

\* body with the value of property k replaced by v
With(body, k, v) == [i \in 1..Len(body) |-> IF body[i].k = k THEN Prop(k, v) ELSE body[i]]

\* body without property k
Without(body, k) == SelectSeq(body, LAMBDA prop : prop.k # k)

OrderOf(orderItems) ==
  <<Prop("restaurantId", Num(1000)), Prop("orderItems", orderItems)>>

\* restaurant payloads: forbidden, unrecognized and missing keys, and values
\* that break a field's rule
RestaurantBodies ==
  {ValidRestaurant \o <<Prop(k, Null)>> :
     k \in {"id", "averageRating", "dishes", "nextDishId", "foo"}}
  \cup {Without(ValidRestaurant, k) : k \in {"name", "isKosher", "cuisines"}}
  \cup {With(ValidRestaurant, "name", v) : v \in {Null, Str(<<>>), Str(<<" ">>), Num(1000)}}
  \cup {With(ValidRestaurant, "isKosher", v) : v \in {Null, Str(<<"t">>)}}
  \cup {With(ValidRestaurant, "cuisines", v) :
          v \in {Null, Str(<<"F">>), Arr(<<>>), Arr(<<Str(<<"F">>), Str(<<" ">>)>>),
                 Arr(<<Null>>)}}

RestaurantUpdates ==
  {<<Prop("name", Str(<<" ">>))>>, <<Prop("isKosher", Null)>>,
   <<Prop("cuisines", Arr(<<>>))>>, <<Prop("averageRating", Num(5000))>>,
   <<Prop("name", Str(<<"B">>)), Prop("nextDishId", Num(1000))>>,
   <<Prop("name", Str(<<"B">>)), Prop("foo", Null)>>}

DishBodies ==
  {ValidDish \o <<Prop(k, Null)>> : k \in {"id", "foo"}}
  \cup {Without(ValidDish, k) : k \in {"name", "description", "price"}}
  \cup {With(ValidDish, "name", v) : v \in {Null, Str(<<" ">>)}}
  \cup {With(ValidDish, "description", v) : v \in {Null, Num(1000)}}
  \cup {With(ValidDish, "price", v) :
          v \in {Null, Str(<<"5">>), Num(-10), Num(0), Num(12345)}}

DishUpdates ==
  {<<>>, <<Prop("price", Num(12345))>>, <<Prop("price", Num(-10))>>,
   <<Prop("price", Str(<<"5">>))>>, <<Prop("name", Str(<<"S">>))>>,
   <<Prop("name", Str(<<" ">>))>>, <<Prop("description", Null)>>,
   <<Prop("name", Str(<<"S">>)), Prop("id", Str(<<"3">>))>>,
   <<Prop("name", Str(<<"S">>)), Prop("foo", Null)>>}

RatingBodies ==
  {With(ValidRating, "rating", v) :
     v \in {Num(0), Num(-10), Num(5010), Null, Str(<<"5">>)}}
  \cup {With(ValidRating, "restaurantId", v) :
          v \in {Num(2000), Num(0), Num(-1000), Num(1500), Str(<<"1">>), Null}}
  \cup {Without(ValidRating, k) : k \in {"restaurantId", "rating"}}
  \cup {ValidRating \o <<Prop("foo", Null)>>,
        <<Prop("restaurantId", Num(2000))>>,
        <<Prop("restaurantId", Num(2000)), Prop("rating", Num(7000))>>}

OrderBodies ==
  {ValidOrder \o <<Prop(k, Null)>> : k \in {"id", "foo"}}
  \cup {Without(ValidOrder, k) : k \in {"restaurantId", "orderItems"}}
  \cup {OrderOf(v) :
          v \in {Null, Str(<<"x">>), Arr(<<>>), Arr(<<Null>>), Arr(<<Num(5000)>>),
                 Arr(<<Str(<<"x">>)>>), Arr(<<Arr(<<Item(1, 1)>>)>>),
                 Arr(<<Item(1, 1), Null>>),
                 Arr(<<Obj(<<Prop("dishId", Num(1000))>>)>>),
                 Arr(<<Obj(<<Prop("dishId", Num(1000)), Prop("amount", Num(1000)),
                            Prop("foo", Null)>>)>>),
                 Arr(<<Obj(<<Prop("dishId", Num(0)), Prop("amount", Num(1000))>>)>>),
                 Arr(<<Obj(<<Prop("dishId", Num(1500)), Prop("amount", Num(1000))>>)>>),
                 Arr(<<Obj(<<Prop("dishId", Str(<<"1">>)), Prop("amount", Num(1000))>>)>>),
                 Arr(<<Obj(<<Prop("dishId", Num(1000)), Prop("amount", Num(0))>>)>>),
                 Arr(<<Obj(<<Prop("dishId", Num(1000)), Prop("amount", Null)>>)>>),
                 Arr(<<Item(1, 1), Item(9, 1)>>)}}
  \cup {With(ValidOrder, "restaurantId", Num(2000))}

\* route identifiers: stored, not stored, and not positive integers
RestaurantIds == {<<"1">>, <<"2">>, <<"0">>, <<"0", "0">>, <<"0", "1">>, <<"-", "1">>,
                  <<"1", ".", "5">>, <<"x">>}
DishIds == {<<"1">>, <<"9">>, <<"0">>, <<"0", "0">>, <<"-", "1">>, <<"x">>}

\* the requests that arrive one at a time
Probes ==
  Traffic \cup Updates
  \cup {Request(PostRestaurant, <<>>, <<>>, body) : body \in RestaurantBodies}
  \cup {Request(PutRestaurant, id, <<>>, body) :
          id \in {<<"1">>, <<"2">>}, body \in RestaurantUpdates}
  \cup {Request(PutRestaurant, id, <<>>, <<Prop("isKosher", Bool(TRUE))>>) :
          id \in RestaurantIds}
  \cup {Request(DeleteRestaurant, id, <<>>, <<>>) : id \in RestaurantIds}
  \cup {Request(PostDish, id, <<>>, body) :
          id \in {<<"1">>, <<"2">>}, body \in DishBodies \cup {ValidDish}}
  \cup {Request(PutDish, id, <<"1">>, body) :
          id \in {<<"1">>, <<"2">>}, body \in DishUpdates}
  \cup {Request(PutDish, <<"1">>, dishId, body) :
          dishId \in DishIds, body \in {<<>>, <<Prop("price", Num(60000))>>}}
  \cup {Request(DeleteDish, <<"1">>, dishId, <<>>) : dishId \in DishIds}
  \cup {Request(PostRating, <<>>, <<>>, body) : body \in RatingBodies}
  \cup {Request(PostOrder, <<>>, <<>>, body) : body \in OrderBodies}

NextSerial ==
  \/ \E t \in Probes : Arrive(1, t.kind, t.id, t.dishId, t.body)
  \/ Handle(1)

\* the server with one request in flight at a time
SpecSerial == Init /\ [][NextSerial]_vars

(***************************************************************************)
(* The pure functions on their own: the arguments are drawn at the start,  *)
(* a step applies the function to them                                     *)
(***************************************************************************)
MaxKeys == 2      \* keys of a payload handed to the classifier
MaxNames == 2     \* names of an allow-list or forbid-list
MaxItems == 3     \* items of an order handed to the normalizer
MaxDishes == 2    \* dish ids the items of an order name
MaxAmount == 3    \* amount of an item

ServerAtRest ==
  /\ db = SeedDb
  /\ snap = SeedDb
  /\ txn = "idle"
  /\ seqs = SeedSeqs
  /\ reqs = [s \in Slots |-> NoReq]
  /\ started = 0
  /\ faults = 0

Elements(list) == {list[i] : i \in 1..Len(list)}

\* the sequences of at most n pairwise different elements of S
DistinctSeqs(S, n) ==
  {q \in UNION {[1..k -> S] : k \in 0..n} : \A i, j \in 1..Len(q) : q[i] = q[j] => i = j}

ClassifierKeys == {"name", "isKosher", "id", "foo"}
ClassifierValues == {Undefined, Null, Str(<<"x">>)}
ClassifierNames == {"name", "isKosher", "id"}

ClassifierPayloads ==
  {obj \in UNION {[1..k -> [k : ClassifierKeys, v : ClassifierValues]] : k \in 0..MaxKeys} :
     \A i, j \in 1..Len(obj) : obj[i].k = obj[j].k => i = j}

InitClassifier ==
  /\ ServerAtRest
  /\ input \in [obj : ClassifierPayloads,
                allowedProperties : DistinctSeqs(ClassifierNames, MaxNames),
                forbiddenProperties : DistinctSeqs(ClassifierNames, MaxNames)]
  /\ output = [missing |-> NotRun, forbidden |-> NotRun, unrecognized |-> NotRun]

CallFindMissing ==
  /\ output.missing = NotRun
  /\ output' = [output EXCEPT !.missing = findMissing(input.obj, input.allowedProperties)]
  /\ UNCHANGED <<db, snap, txn, seqs, reqs, started, faults, input>>

CallFindForbidden ==
  /\ output.forbidden = NotRun
  /\ output' = [output EXCEPT
                  !.forbidden = findForbidden(input.obj, input.forbiddenProperties)]
  /\ UNCHANGED <<db, snap, txn, seqs, reqs, started, faults, input>>

CallFindUnrecognized ==
  /\ output.unrecognized = NotRun
  /\ output' = [output EXCEPT
                  !.unrecognized = findUnrecognized(input.obj, input.allowedProperties,
                                                    input.forbiddenProperties)]
  /\ UNCHANGED <<db, snap, txn, seqs, reqs, started, faults, input>>

NextClassifier == CallFindMissing \/ CallFindForbidden \/ CallFindUnrecognized

SpecClassifier == InitClassifier /\ [][NextClassifier]_vars

\* the order normalizer on validated items
NormalizerItems == [dishId : 1..MaxDishes, amount : 1..MaxAmount]

InitNormalizer ==
  /\ ServerAtRest
  /\ input \in UNION {[1..k -> NormalizerItems] : k \in 1..MaxItems}
  /\ output = [ran |-> FALSE, result |-> <<>>]

CallCombinedOrderItems ==
  /\ ~output.ran
  /\ output' = [ran |-> TRUE, result |-> combinedOrderItems(input)]
  /\ UNCHANGED <<db, snap, txn, seqs, reqs, started, faults, input>>

NextNormalizer == CallCombinedOrderItems

SpecNormalizer == InitNormalizer /\ [][NextNormalizer]_vars

\* the update composer of PUT /restaurants/:id on the payloads its
\* middleware lets through
ComposerProps ==
  {Prop("name", Str(<<"B">>)), Prop("name", Str(<<"C", " ">>)),
   Prop("isKosher", Bool(TRUE)), Prop("isKosher", Bool(FALSE)),
   Prop("cuisines", Arr(<<Str(<<"F">>)>>)),
   Prop("cuisines", Arr(<<Str(<<"F">>), Str(<<"G">>)>>)),
   Prop("id", Num(7000))}

ComposerPayloads ==
  {obj \in UNION {[1..k -> ComposerProps] : k \in 0..3} :
     \A i, j \in 1..Len(obj) : obj[i].k = obj[j].k => i = j}

InitComposer ==
  /\ ServerAtRest
  /\ input \in [id : {<<"1">>, <<"2">>}, body : ComposerPayloads]
  /\ output = [ran |-> FALSE, result |-> [text |-> <<>>, values |-> <<>>]]

CallUpdateRestaurantQuery ==
  /\ ~output.ran
  /\ validateRestaurantReqBody("PUT", input.body) = 0
  /\ output' = [ran |-> TRUE, result |-> updateRestaurantQuery(input.id, input.body)]
  /\ UNCHANGED <<db, snap, txn, seqs, reqs, started, faults, input>>

NextComposer == CallUpdateRestaurantQuery

SpecComposer == InitComposer /\ [][NextComposer]_vars

(***************************************************************************)
(* Properties                                                              *)
(***************************************************************************)
DataStatements == {"SELECT", "INSERT", "UPDATE", "DELETE"}
Writes == {"INSERT", "UPDATE", "DELETE"}

\* request s has just had a data statement executed: it read the tables
Reads(s) ==
  /\ Len(reqs'[s].log) > Len(reqs[s].log)
  /\ reqs'[s].log[Len(reqs'[s].log)] \in DataStatements
  /\ txn # "aborted"

\* request s has just been answered with status
Answered(s, status) ==
  /\ reqs[s].pc # "done"
  /\ reqs'[s].pc = "done"
  /\ reqs'[s].status = status

\* the deletion in slot s has removed rows of its restaurant which are still
\* missing while the restaurant's own row is still there
PartlyDeleted(s) ==
  /\ reqs[s].kind = DeleteRestaurant
  /\ RestaurantRows(db, parseInt(reqs[s].id)) # {}
  /\ \/ reqs[s].delRatings \ Ids(db.ratings) # {}
     \/ reqs[s].delOrders \ Ids(db.orders) # {}

\* C1: restaurant deletion is atomic: no statement of another request ever
\* reads tables from which a deletion has removed the restaurant's ratings or
\* orders but not yet the restaurant
C1_DeletionAtomic ==
  [][\A s, t \in Slots : (s # t /\ Reads(t)) => ~PartlyDeleted(s)]_vars

\* the stored average of every rated restaurant is the mean of its ratings
AverageIsMean(d) ==
  \A row \in d.restaurants :
    RatingsOf(d, row.id) # {} =>
      /\ row.averageRating.den # 0
      /\ row.averageRating.num * Cardinality(RatingsOf(d, row.id))
           = SumRatings(RatingsOf(d, row.id)) * row.averageRating.den

\* C2: when a rating creation is acknowledged, its rating is stored and the
\* restaurant's averageRating is the mean of the restaurant's stored ratings;
\* and whenever no request is in flight every rated restaurant's
\* averageRating is the mean of its ratings
C2_AverageAfterRating ==
  [][/\ \A s \in Slots :
          (reqs[s].kind = PostRating /\ Answered(s, 200)) =>
             /\ reqs'[s].ins # {}
             /\ reqs'[s].ins \subseteq Ids(RatingsOf(db', get(reqs[s].body, "restaurantId").n \div 1000))
             /\ AverageIsMean(db')
     /\ (\A s \in Slots : reqs'[s].pc = "free") => AverageIsMean(db')]_vars

\* C3: when a restaurant deletion or a rating creation that has begun its
\* sequence is answered 500, nothing the sequence did remains: the rating it
\* inserted is not stored, and the committed ratings and orders it deleted
\* are stored again
C3_FailureReverts ==
  [][\A s \in Slots :
       (reqs[s].kind \in {DeleteRestaurant, PostRating} /\ Answered(s, 500)) =>
          /\ reqs'[s].ins \cap Ids(db'.ratings) = {}
          /\ reqs'[s].delRatings \subseteq Ids(db'.ratings)
          /\ reqs'[s].delOrders \subseteq Ids(db'.orders)]_vars

\* the ids of the dishes of a menu are pairwise different
DistinctDishIds(dishes) ==
  \A i, j \in 1..Len(dishes) : dishes[i].id = dishes[j].id => i = j

\* C4: every acknowledged dish add stores a dish whose id is the decimal
\* string of the restaurant's nextDishId at that moment and advances
\* nextDishId by exactly 1; acknowledged dish updates and deletes leave
\* nextDishId alone; and the ids within a menu are pairwise different
C4_DishIdsNeverReused ==
  [][/\ \A s \in Slots :
          (reqs[s].kind = PostDish /\ Answered(s, 201)) =>
             \E row \in RestaurantRows(db, parseInt(reqs[s].id)) :
               \E after \in RestaurantRows(db', parseInt(reqs[s].id)) :
                 /\ after.dishes # <<>>
                 /\ after.dishes[Len(after.dishes)].id = toString(row.nextDishId)
                 /\ after.nextDishId = row.nextDishId + 1
     /\ \A s \in Slots :
          (reqs[s].kind \in {PutDish, DeleteDish}
             /\ (Answered(s, 200) \/ Answered(s, 204))) =>
             \A row \in RestaurantRows(db, parseInt(reqs[s].id)) :
               \A after \in RestaurantRows(db', parseInt(reqs[s].id)) :
                 after.nextDishId = row.nextDishId
     /\ \A row \in db'.restaurants : DistinctDishIds(row.dishes)]_vars

KeySet(obj) == {obj[i].k : i \in 1..Len(obj)}

\* list holds the elements of the set S, each once, in the order they have
\* in the list `order`
ListsInOrder(list, S, order) ==
  /\ Elements(list) = S
  /\ Len(list) = Cardinality(S)
  /\ \A i, j \in 1..Len(list) :
       i < j => \E a, b \in 1..Len(order) : a < b /\ order[a] = list[i] /\ order[b] = list[j]

\* C6: findMissing returns exactly the names of the allow-list that are not
\* keys of the payload or whose value in the payload is absent (undefined),
\* in the allow-list's order
C6_FindMissingExact ==
  output.missing # NotRun =>
    ListsInOrder(output.missing,
                 {name \in Elements(input.allowedProperties) :
                    \/ name \notin KeySet(input.obj)
                    \/ \E i \in 1..Len(input.obj) :
                         input.obj[i].k = name /\ input.obj[i].v = Undefined},
                 input.allowedProperties)

\* findMissing has run on an allow-list of two names, one of them a key whose
\* value is null, the other not a key
C6_Witness ==
  /\ output.missing # NotRun
  /\ Len(input.allowedProperties) = 2
  /\ Len(output.missing) = 1
  /\ \E i \in 1..Len(input.obj) :
       input.obj[i].k \in Elements(input.allowedProperties) /\ input.obj[i].v = Null

\* C7: findForbidden returns exactly the names of the forbid-list that are
\* keys of the payload, whatever their value, in the forbid-list's order
C7_FindForbiddenExact ==
  output.forbidden # NotRun =>
    ListsInOrder(output.forbidden,
                 Elements(input.forbiddenProperties) \cap KeySet(input.obj),
                 input.forbiddenProperties)

\* findForbidden has reported a key whose value is null
C7_Witness ==
  /\ output.forbidden # NotRun
  /\ \E i \in 1..Len(input.obj) :
       input.obj[i].k \in Elements(output.forbidden) /\ input.obj[i].v = Null

\* C8: for disjoint lists, findUnrecognized returns exactly the keys of the
\* payload that are in neither list, in the payload's order
C8_FindUnrecognizedExact ==
  (/\ output.unrecognized # NotRun
   /\ Elements(input.allowedProperties) \cap Elements(input.forbiddenProperties) = {}) =>
    ListsInOrder(output.unrecognized,
                 (KeySet(input.obj) \ Elements(input.allowedProperties))
                    \ Elements(input.forbiddenProperties),
                 keys(input.obj))

\* findUnrecognized has reported one key of a payload that also holds a
\* forbidden key
C8_Witness ==
  /\ output.unrecognized # NotRun
  /\ Elements(input.allowedProperties) \cap Elements(input.forbiddenProperties) = {}
  /\ Len(output.unrecognized) = 1
  /\ KeySet(input.obj) \cap Elements(input.forbiddenProperties) # {}

RECURSIVE SumAmounts(_, _)
SumAmounts(orderItems, dishId) ==
  IF orderItems = <<>> THEN 0
  ELSE (IF Head(orderItems).dishId = dishId THEN Head(orderItems).amount ELSE 0)
       + SumAmounts(Tail(orderItems), dishId)

FirstOccurrence(orderItems, dishId) ==
  CHOOSE i \in 1..Len(orderItems) :
    /\ orderItems[i].dishId = dishId
    /\ \A j \in 1..(i - 1) : orderItems[j].dishId # dishId

\* C5: the normalized list holds exactly one item for each dishId of the
\* input, in the order of the dishIds' first occurrences, with the sum of the
\* input's amounts for that dishId
C5_NormalizedOrder ==
  output.ran =>
    /\ {output.result[i].dishId : i \in 1..Len(output.result)} = {input[i].dishId : i \in 1..Len(input)}
    /\ \A i, j \in 1..Len(output.result) :
         /\ output.result[i].dishId = output.result[j].dishId => i = j
         /\ i < j => FirstOccurrence(input, output.result[i].dishId)
                       < FirstOccurrence(input, output.result[j].dishId)
    /\ \A i \in 1..Len(output.result) : output.result[i].amount = SumAmounts(input, output.result[i].dishId)

\* the normalizer has merged the first and the third of three items
C5_Witness ==
  /\ output.ran
  /\ Len(input) = 3
  /\ input[1].dishId = input[3].dishId
  /\ input[2].dishId # input[1].dishId
  /\ Len(output.result) = 2
  /\ output.result[1].amount = input[1].amount + input[3].amount

\* C9: the composed update names exactly the mutable fields present in the
\* payload, in the declared order; each SET placeholder is bound to the
\* payload's value of its field, $1 to the route id; and the text holds only
\* declared field names and placeholders
C9_UpdateComposition ==
  output.ran =>
    /\ ListsInOrder([i \in 1..Len(output.result.text) |-> output.result.text[i].column],
                    KeySet(input.body) \cap {"name", "isKosher", "cuisines"},
                    <<"name", "isKosher", "cuisines">>)
    /\ \A i \in 1..Len(output.result.text) :
         /\ output.result.text[i].placeholder \in 2..Len(output.result.values)
         /\ output.result.values[output.result.text[i].placeholder]
              = (CHOOSE prop \in Elements(input.body) : prop.k = output.result.text[i].column).v
         /\ \A j \in 1..Len(output.result.text) :
              output.result.text[i].placeholder = output.result.text[j].placeholder => i = j
    /\ output.result.values[1] = input.id
    /\ Len(output.result.values) = Len(output.result.text) + 1

\* an update has been composed from a payload that lists cuisines before name
C9_Witness ==
  /\ output.ran
  /\ Len(input.body) >= 2
  /\ input.body[1].k = "cuisines"
  /\ input.body[2].k = "name"
  /\ output.result.text[1].column = "name"

\* the payload names none of the mutable fields of the entity the request
\* updates
ZeroMutableFields(r) ==
  /\ r.kind \in {PutRestaurant, PutDish}
  /\ KeySet(r.body) \cap (IF r.kind = PutRestaurant THEN {"name", "isKosher", "cuisines"}
                          ELSE {"name", "description", "price"}) = {}

NoWrite(r) == \A i \in 1..Len(r.log) : r.log[i] \notin Writes

Healthy == faults = 0

\* a route identifier that denotes a positive integer
PositiveIntegerString(str) == str # <<>> /\ ~nonDigitRegex(str) /\ parseInt(str) >= 1

RoutesOfRestaurant == {PutRestaurant, DeleteRestaurant, PostDish, PutDish, DeleteDish}
RoutesOfDish == {PutDish, DeleteDish}
RoutesOfBodyId == {PostRating, PostOrder}

\* every identifier the request names is a positive integer
WellFormedIds(r) ==
  /\ r.kind \in RoutesOfRestaurant => PositiveIntegerString(r.id)
  /\ r.kind \in RoutesOfDish => PositiveIntegerString(r.dishId)
  /\ r.kind \in RoutesOfBodyId => positiveInteger(get(r.body, "restaurantId"))

\* the restaurant the request names, once its identifiers are well formed
RestaurantOf(r) ==
  IF r.kind \in RoutesOfBodyId THEN get(r.body, "restaurantId").n \div 1000
  ELSE parseInt(r.id)

\* the payload breaks no rule of its operation
ValidPayload(r) ==
  CASE r.kind \in {PostRestaurant, PutRestaurant} ->
         validateRestaurantReqBody(method(r.kind), r.body) \in {0, 200}
    [] r.kind \in {PostDish, PutDish} ->
         validateDishReqBody(method(r.kind), r.body) \in {0, 200}
    [] r.kind = PostRating ->
         ~ratingRejected(r.body) /\ KeySet(r.body) = {"restaurantId", "rating"}
    [] r.kind = PostOrder -> validateOrderReqBody(r.body) = 0
    [] OTHER -> TRUE

\* the request names a restaurant that is not stored, or a dish that is not
\* in the menu of the stored restaurant it names
NamesNothing(r) ==
  LET rows == RestaurantRows(db, RestaurantOf(r)) IN
  \/ r.kind \in RoutesOfRestaurant \cup RoutesOfBodyId /\ rows = {}
  \/ /\ r.kind \in RoutesOfDish
     /\ rows # {}
     /\ findIndex((CHOOSE row \in rows : TRUE).dishes, r.dishId) = 0

\* C11: a request whose identifiers and payload are valid and which names a
\* restaurant that is not stored, or a dishId that is not in the addressed
\* restaurant's menu, is answered 404 and performs no write
C11_NotFound ==
  \A s \in Slots :
    LET r == reqs[s] IN
    (/\ r.pc = "done"
     /\ Healthy
     /\ NoWrite(r)
     /\ WellFormedIds(r)
     /\ ValidPayload(r)
     /\ NamesNothing(r)) => r.status = 404

\* C12: a request with a restaurant id (in the route or in the body) that is
\* not a positive integer is answered 400 without a statement being issued;
\* one with a dishId that is not a positive integer, for a stored restaurant
\* and a payload that passes validation, is answered 400 after the lookup of
\* the restaurant alone
C12_MalformedNeverLookedUp ==
  \A s \in Slots :
    LET r == reqs[s] IN
    (r.pc = "done" /\ Healthy) =>
      /\ (\/ r.kind \in RoutesOfRestaurant /\ ~PositiveIntegerString(r.id)
          \/ r.kind \in RoutesOfBodyId
               /\ ~positiveInteger(get(r.body, "restaurantId")))
           => r.status = 400 /\ r.log = <<>>
      /\ (/\ r.kind \in RoutesOfDish
          /\ PositiveIntegerString(r.id)
          /\ ~PositiveIntegerString(r.dishId)
          /\ RestaurantRows(db, parseInt(r.id)) # {}
          /\ validateDishReqBody(method(r.kind), r.body) = 0)
           => r.status = 400 /\ r.log = <<"SELECT">>

Mutations == {PostRestaurant, PutRestaurant, PostDish, PutDish, PostRating, PostOrder}
Creations == {PostRestaurant, PostDish, PostRating, PostOrder}

\* the names the spec allows and forbids in the payload of an operation
AllowedKeys(kind) ==
  CASE kind \in {PostRestaurant, PutRestaurant} -> {"name", "isKosher", "cuisines"}
    [] kind \in {PostDish, PutDish} -> {"name", "description", "price"}
    [] kind = PostRating -> {"restaurantId", "rating"}
    [] kind = PostOrder -> {"restaurantId", "orderItems"}
    [] OTHER -> {}

ForbiddenKeys(kind) ==
  CASE kind \in {PostRestaurant, PutRestaurant} ->
         {"id", "averageRating", "dishes", "nextDishId"}
    [] kind \in {PostDish, PutDish, PostOrder} -> {"id"}
    [] OTHER -> {}

HasForbidden(r) == KeySet(r.body) \cap ForbiddenKeys(r.kind) # {}

HasUnrecognized(r) ==
  \/ (KeySet(r.body) \ AllowedKeys(r.kind)) \ ForbiddenKeys(r.kind) # {}
  \/ /\ r.kind = PostOrder
     /\ \E i \in 1..Len(get(r.body, "orderItems").a) :
          KeySet(get(r.body, "orderItems").a[i].o) \ {"dishId", "amount"} # {}

LacksRequired(r) ==
  /\ r.kind \in Creations
  /\ \E k \in AllowedKeys(r.kind) : get(r.body, k) = Undefined

\* the restaurant the request names is stored
RestaurantStored(r) ==
  r.kind \in RoutesOfRestaurant \cup RoutesOfBodyId =>
    WellFormedIds(r) /\ RestaurantRows(db, RestaurantOf(r)) # {}

\* C13: a creation or update payload with a key that is neither allowed nor
\* forbidden, with no forbidden key and no required field missing, for a
\* restaurant that is stored, is answered 400 and issues no write
C13_UnrecognizedRejected ==
  \A s \in Slots :
    LET r == reqs[s] IN
    (/\ r.pc = "done"
     /\ Healthy
     /\ r.kind \in Mutations
     /\ RestaurantStored(r)
     /\ HasUnrecognized(r)
     /\ ~HasForbidden(r)
     /\ ~LacksRequired(r)) => r.status = 400 /\ NoWrite(r)

\* the request with the forbidden keys taken out of its payload
Stripped(r) ==
  [r EXCEPT !.body = SelectSeq(@, LAMBDA prop : prop.k \notin ForbiddenKeys(r.kind))]

\* request s has just issued a write
Wrote(s) ==
  /\ Len(reqs'[s].log) > Len(reqs[s].log)
  /\ reqs'[s].log[Len(reqs'[s].log)] \in Writes

\* the step leaves averageRating, dishes and nextDishId of every restaurant
\* as they were, and a new restaurant has the defaults of the table
DerivedFieldsKept ==
  \A after \in db'.restaurants :
    IF after.id \in Ids(db.restaurants)
    THEN \E row \in db.restaurants :
           /\ row.id = after.id
           /\ row.averageRating = after.averageRating
           /\ row.dishes = after.dishes
           /\ row.nextDishId = after.nextDishId
    ELSE /\ after.averageRating = NullAverage
         /\ after.dishes = <<>>
         /\ after.nextDishId = 1

C15_MissingRejected ==
  \A s \in Slots :
    LET r == reqs[s] IN
    (/\ r.pc = "done"
     /\ Healthy
     /\ LacksRequired(r)
     /\ r.kind = PostDish => PositiveIntegerString(r.id)
     /\ (r.kind \in RoutesOfBodyId /\ get(r.body, "restaurantId") # Undefined)
          => positiveInteger(get(r.body, "restaurantId")))
      => r.status = 400 /\ NoWrite(r)

\* the rules of the spec for the fields of a restaurant and of a dish
NonBlankString(v) == v.t = "string" /\ \E i \in 1..Len(v.s) : v.s[i] # " "

BreaksRestaurantRule(k, v) ==
  CASE k = "name" -> ~NonBlankString(v)
    [] k = "isKosher" -> v.t # "boolean"
    [] k = "cuisines" ->
         ~(v.t = "array" /\ Len(v.a) >= 1 /\ \A i \in 1..Len(v.a) : NonBlankString(v.a[i]))
    [] OTHER -> FALSE

BreaksDishRule(k, v) ==
  CASE k = "name" -> ~NonBlankString(v)
    [] k = "description" -> v.t # "string"
    [] k = "price" -> ~(v.t = "number" /\ v.n >= 0)
    [] OTHER -> FALSE

\* some field present in the payload breaks its rule
BreaksRule(r) ==
  \E i \in 1..Len(r.body) :
    IF r.kind \in {PostRestaurant, PutRestaurant}
    THEN BreaksRestaurantRule(r.body[i].k, r.body[i].v)
    ELSE BreaksDishRule(r.body[i].k, r.body[i].v)

\* the payload is wrong in no other way than in the value of a field
OnlyValuesWrong(r) ==
  /\ BreaksRule(r)
  /\ ~HasForbidden(r)
  /\ ~HasUnrecognized(r)
  /\ ~LacksRequired(r)
  /\ r.kind \in RoutesOfRestaurant => PositiveIntegerString(r.id)
  /\ r.kind \in RoutesOfDish => PositiveIntegerString(r.dishId)

\* C16: a restaurant create or update issues a write only if every field
\* present in its payload satisfies its rule, and a payload in which a
\* present field breaks its rule is answered 400
C16_RestaurantFieldRules ==
  \A s \in Slots :
    LET r == reqs[s] IN
    r.kind \in {PostRestaurant, PutRestaurant} =>
      /\ ~NoWrite(r) => ~BreaksRule(r)
      /\ (r.pc = "done" /\ Healthy /\ OnlyValuesWrong(r)) => r.status = 400

\* C17: a dish create or update issues a write only if every field present
\* in its payload satisfies its rule, and a payload in which a present field
\* breaks its rule is answered 400
C17_DishFieldRules ==
  \A s \in Slots :
    LET r == reqs[s] IN
    r.kind \in {PostDish, PutDish} =>
      /\ ~NoWrite(r) => ~BreaksRule(r)
      /\ (r.pc = "done" /\ Healthy /\ OnlyValuesWrong(r)) => r.status = 400

\* C18: every price of a stored dish is a multiple of one hundredth
C18_PricesRounded ==
  \A row \in db.restaurants :
    \A i \in 1..Len(row.dishes) : row.dishes[i].price.n % 10 = 0

\* C19: a rating creation whose rating is not a number in [0, 5] is
\* answered 400 and stores nothing, one whose rating is 0 or 5 and whose
\* restaurant is stored is answered 200, and every stored rating is in [0, 5]
C19_RatingBounds ==
  /\ \A row \in db.ratings : 0 <= row.rating /\ row.rating <= 5000
  /\ \A s \in Slots :
       LET r == reqs[s]
           rating == get(r.body, "rating")
       IN
       (/\ r.kind = PostRating
        /\ r.pc = "done"
        /\ Healthy
        /\ positiveInteger(get(r.body, "restaurantId"))
        /\ rating # Undefined) =>
         /\ ~(rating.t = "number" /\ 0 <= rating.n /\ rating.n <= 5000)
              => r.status = 400 /\ NoWrite(r)
         /\ (rating \in {Num(0), Num(5000)} /\ r.ins \subseteq Ids(db.ratings)
               /\ RestaurantStored(r)) => r.status = 200

\* an element of orderItems that is an object with exactly dishId and
\* amount, each an integer of at least 1
GoodOrderItem(v) ==
  /\ v.t = "object"
  /\ KeySet(v.o) = {"dishId", "amount"}
  /\ \A k \in {"dishId", "amount"} :
       get(v.o, k).t = "number" /\ get(v.o, k).n % 1000 = 0 /\ get(v.o, k).n >= 1000

\* C20: an order whose orderItems is not a non-empty array of such
\* elements, and which is otherwise complete and names a stored restaurant,
\* is answered 400 and issues no write
C20_OrderItemsRejected ==
  \A s \in Slots :
    LET r == reqs[s]
        orderItems == get(r.body, "orderItems")
    IN
    (/\ r.kind = PostOrder
     /\ r.pc = "done"
     /\ Healthy
     /\ RestaurantStored(r)
     /\ KeySet(r.body) = {"restaurantId", "orderItems"}
     /\ \/ orderItems.t # "array"
        \/ orderItems.a = <<>>
        \/ \E i \in 1..Len(orderItems.a) : ~GoodOrderItem(orderItems.a[i]))
      => r.status = 400 /\ NoWrite(r)

(***************************************************************************)
(* The same rules for requests whose restaurant is stored: the existence   *)
(* check, which runs first, then lets the payload reach its validator      *)
(***************************************************************************)
\* the request names no restaurant, or one that is stored
StoredIfNamed(r) ==
  \/ r.kind = PostRestaurant
  \/ r.kind \in RoutesOfBodyId /\ get(r.body, "restaurantId") = Undefined
  \/ RestaurantRows(db, RestaurantOf(r)) # {}

\* a creation that lacks a required field is answered 400 without a write
MissingRejectedWhenStored ==
  \A s \in Slots :
    LET r == reqs[s] IN
    (/\ r.pc = "done"
     /\ Healthy
     /\ LacksRequired(r)
     /\ StoredIfNamed(r)
     /\ r.kind = PostDish => PositiveIntegerString(r.id)
     /\ (r.kind \in RoutesOfBodyId /\ get(r.body, "restaurantId") # Undefined)
          => positiveInteger(get(r.body, "restaurantId")))
      => r.status = 400 /\ NoWrite(r)

\* a restaurant or dish payload with a field that breaks its rule is
\* answered 400, and is never written
FieldRulesWhenStored ==
  \A s \in Slots :
    LET r == reqs[s] IN
    r.kind \in {PostRestaurant, PutRestaurant, PostDish, PutDish} =>
      /\ ~NoWrite(r) => ~BreaksRule(r)
      /\ (r.pc = "done" /\ Healthy /\ OnlyValuesWrong(r) /\ StoredIfNamed(r))
           => r.status = 400

\* a rating outside [0, 5] or not a number is answered 400 without a write
RatingBoundsWhenStored ==
  \A s \in Slots :
    LET r == reqs[s]
        rating == get(r.body, "rating")
    IN
    (/\ r.kind = PostRating
     /\ r.pc = "done"
     /\ Healthy
     /\ positiveInteger(get(r.body, "restaurantId"))
     /\ StoredIfNamed(r)
     /\ rating # Undefined
     /\ ~(rating.t = "number" /\ 0 <= rating.n /\ rating.n <= 5000))
      => r.status = 400 /\ NoWrite(r)

(***************************************************************************)
(* Order creation: the stages before the INSERT                            *)
(***************************************************************************)
\* the ids of the dishes on a restaurant's menu
MenuIds(d, restaurantId) ==
  {parseInt(row.dishes[i].id) : <<row, i>> \in
     {<<row, i>> \in RestaurantRows(d, restaurantId) \X (1..MaxRequests + 1) :
        i <= Len(row.dishes)}}

\* the dish ids an order's items name
OrderedDishIds(r) ==
  LET orderItems == get(r.body, "orderItems").a IN
  {get(orderItems[i].o, "dishId").n \div 1000 : i \in 1..Len(orderItems)}

\* the order's payload meets every field rule
GoodOrder(r) ==
  /\ KeySet(r.body) = {"restaurantId", "orderItems"}
  /\ get(r.body, "orderItems").t = "array"
  /\ get(r.body, "orderItems").a # <<>>
  /\ \A i \in 1..Len(get(r.body, "orderItems").a) :
       GoodOrderItem(get(r.body, "orderItems").a[i])

\* C21: an order reaches its INSERT only from the step at which the payload
\* had met every field rule and every dishId it names was on the restaurant's
\* menu, with both lookups behind it; the INSERT is issued only from there; an
\* order that names a dish absent from the menu is answered 404 at the
\* existence check when the store is healthy; and an order answered 404 has
\* issued no write and leaves the orders as they were
C21_OrderAfterChecks ==
  [][\A s \in Slots :
       LET r == reqs[s]
           after == reqs'[s]
           restaurantId == get(r.body, "restaurantId").n \div 1000
       IN r.kind = PostOrder =>
            /\ (r.pc # "addOrderQuery" /\ after.pc = "addOrderQuery")
                 => /\ r.pc = "validateOrderDishesExistence"
                    /\ GoodOrder(r)
                    /\ OrderedDishIds(r) \subseteq MenuIds(db, restaurantId)
                    /\ after.log = <<"SELECT", "SELECT">>
            /\ (Len(after.log) > Len(r.log) /\ after.log[Len(after.log)] = "INSERT")
                 => r.pc = "addOrderQuery"
            /\ (/\ r.pc = "validateOrderDishesExistence"
                /\ after # r
                /\ Healthy'
                /\ ~(OrderedDishIds(r) \subseteq MenuIds(db, restaurantId)))
                 => after.pc = "done" /\ after.status = 404
            /\ (r.pc # "done" /\ after.pc = "done" /\ after.status = 404)
                 => NoWrite(after) /\ db'.orders = db.orders]_vars

\* an order naming a listed and an unlisted dish of a stored restaurant has been
\* answered 404 after both lookups
C21_Witness ==
  \E s \in Slots :
    /\ reqs[s].kind = PostOrder
    /\ reqs[s].pc = "done"
    /\ reqs[s].status = 404
    /\ reqs[s].log = <<"SELECT", "SELECT">>
    /\ GoodOrder(reqs[s])
    /\ OrderedDishIds(reqs[s]) = {1, 9}

(***************************************************************************)
(* Rating creation, order creation and restaurant deletion, interleaved    *)
(***************************************************************************)
Referencing ==
  {t \in Traffic : t.kind \in {DeleteRestaurant, PostRating, PostOrder}}

HandleReferencing(s) ==
  \/ validateIdParamMiddleware(s)
  \/ validateIdInReqBodyMiddleware(s)
  \/ validateOrderReqBodyMiddleware(s)
  \/ validateOrderDishesExistenceMiddleware(s)
  \/ addOrder(s)
  \/ BEGIN(s)
  \/ deleteRatings(s)
  \/ deleteOrders(s)
  \/ deleteRestaurant(s)
  \/ addRating(s)
  \/ updateAverageRating(s)
  \/ COMMIT(s)
  \/ ROLLBACK(s)
  \/ Retire(s)

NextReferencing ==
  \/ \E s \in Slots, t \in Referencing : Arrive(s, t.kind, t.id, t.dishId, t.body)
  \/ \E s \in Slots : HandleReferencing(s)

SpecReferencing == Init /\ [][NextReferencing]_vars

\* every rating and every order of d references a restaurant of d
Referenced(d) ==
  \A row \in d.ratings \cup d.orders : RestaurantRows(d, row.restaurantId) # {}

\* C22: in every reachable state, inside a transaction or not, every stored
\* rating and every stored order references a stored restaurant, and so does
\* the state a ROLLBACK would restore
C22_ReferentialIntegrity == Referenced(db) /\ Referenced(snap)

\* a rating whose restaurant passed the existence check and was deleted before
\* the INSERT has been refused, with no store fault
C22_Witness ==
  \E s \in Slots :
    /\ reqs[s].kind = PostRating
    /\ reqs[s].pc = "done"
    /\ reqs[s].status = 500
    /\ reqs[s].log = <<"SELECT", "BEGIN", "INSERT", "ROLLBACK">>
    /\ faults = 0
    /\ txn = "idle"
    /\ db.restaurants = {}

(***************************************************************************)
(* The order of the stages of a request                                    *)
(***************************************************************************)
\* request s has just had statement kinds of this set executed as its latest
Issued(s, statements) ==
  /\ Len(reqs'[s].log) > Len(reqs[s].log)
  /\ reqs'[s].log[Len(reqs'[s].log)] \in statements

\* C23: a request issues a lookup only with a payload that has passed all
\* classification and field validation, and a write only after the lookup
\* of every entity it references
C23_StagesInOrder ==
  [][\A s \in Slots :
       /\ Issued(s, {"SELECT"}) => ValidPayload(reqs'[s])
       /\ (Issued(s, Writes) /\ reqs'[s].kind \in RoutesOfRestaurant \cup RoutesOfBodyId)
            => \E i \in 1..Len(reqs[s].log) : reqs[s].log[i] = "SELECT"]_vars

\* the half of C23 about writes: no write before the lookups
WritesAfterLookups ==
  [][\A s \in Slots :
       (Issued(s, Writes) /\ reqs'[s].kind \in RoutesOfRestaurant \cup RoutesOfBodyId)
         => \E i \in 1..Len(reqs[s].log) : reqs[s].log[i] = "SELECT"]_vars

(***************************************************************************)
(* Where a request can fail                                                *)
(***************************************************************************)
\* the number of existence lookups on the route of an operation
Lookups(kind) ==
  CASE kind = PostRestaurant -> 0
    [] kind \in {PutRestaurant, DeleteRestaurant, PostDish, PostRating} -> 1
    [] OTHER -> 2

\* C24: a request answered 500 had passed structural validation and every
\* existence lookup of its route: the statement that failed came after them
C24_FailureOnlyFromPersistence ==
  \A s \in Slots :
    (reqs[s].pc = "done" /\ reqs[s].status = 500)
      => Len(reqs[s].log) > Lookups(reqs[s].kind)

\* the same for a store that refuses nothing: C24 without the store's part
FailureOnlyFromPersistenceWhenHealthy ==
  \A s \in Slots :
    (reqs[s].pc = "done" /\ reqs[s].status = 500 /\ Healthy)
      => Len(reqs[s].log) > Lookups(reqs[s].kind)

(***************************************************************************)
(* Every request is answered                                               *)
(***************************************************************************)
\* C25: every request that has arrived is eventually answered
C25_EveryRequestAnswered ==
  \A s \in Slots : (reqs[s].pc # "free") ~> (reqs[s].pc = "done")

\* the part of C25 that needs no fairness: a request that has been answered
\* takes no further step but to leave, and its status stays as sent
AnsweredOnce ==
  [][\A s \in Slots :
       reqs[s].pc = "done" => reqs'[s] \in {reqs[s], NoReq}]_vars

\* C25 for requests whose ROLLBACK the store does not fail
AnsweredUnlessRollbackFails ==
  \A s \in Slots :
    (reqs[s].pc # "free") ~> (reqs[s].pc \in {"done", "unanswered"})

(***************************************************************************)
(* Rejected requests                                                       *)
(***************************************************************************)
Rejections == {400, 404, 422}

\* the request has issued nothing but lookups
OnlyLookups(r) == \A i \in 1..Len(r.log) : r.log[i] = "SELECT"

\* C26: a request answered 400, 404 or 422 has issued nothing but lookups,
\* and every step of a request that has issued nothing but lookups leaves the
\* tables, the sequences and the transaction state as they were: the store
\* after the rejection is the store before the request
C26_RejectedWritesNothing ==
  [][\A s \in Slots :
       LET after == reqs'[s] IN
       /\ (after.pc = "done" /\ after.status \in Rejections) => OnlyLookups(after)
       /\ (after # reqs[s] /\ after.pc # "free" /\ OnlyLookups(after))
            => db' = db /\ seqs' = seqs /\ txn' = txn /\ snap' = snap]_vars

\* a rating outside its bounds for a stored restaurant has been answered 400
\* after the lookup of the restaurant
C26_Witness ==
  \E s \in Slots :
    /\ reqs[s].kind = PostRating
    /\ reqs[s].pc = "done"
    /\ reqs[s].status = 400
    /\ reqs[s].log = <<"SELECT">>
    /\ ratingRejected(reqs[s].body)
    /\ db = SeedDb

\* the first half of C26, which also holds with requests interleaved
RejectedOnlyLookups ==
  \A s \in Slots :
    (reqs[s].pc = "done" /\ reqs[s].status \in Rejections) => OnlyLookups(reqs[s])

(***************************************************************************)
(* Order creation: the outcome                                             *)
(***************************************************************************)
\* C27: a valid order for a stored restaurant whose items all name dishes on
\* its menu, handled by a store that refuses nothing on its own, is answered
\* 200 with the identity of the one order row it has stored, whose items are
\* the normalized items
C27_OrderCreated ==
  \A s \in Slots :
    LET r == reqs[s] IN
    (/\ r.kind = PostOrder
     /\ r.pc = "done"
     /\ Healthy
     /\ GoodOrder(r)
     /\ RestaurantStored(r)
     /\ OrderedDishIds(r) \subseteq MenuIds(db, RestaurantOf(r)))
      => /\ r.status = 200
         /\ \E row \in db.orders :
              /\ r.ins = {row.id}
              /\ row.restaurantId = RestaurantOf(r)
              /\ row.orderItems = combinedOrderItems(OrderItems(r.body))

(***************************************************************************)
(* Dish update and dish deletion with one request in flight                *)
(***************************************************************************)
\* the menu of a stored restaurant
Menu(d, restaurantId) == (CHOOSE row \in RestaurantRows(d, restaurantId) : TRUE).dishes

\* request s has just been answered with status by the write of its handler
Written(s, status) == Issued(s, {"UPDATE"}) /\ Answered(s, status)

\* C28: the dish existence check hands the handler the position of the first
\* dish of the menu whose id is the route's dishId; a successful dish update
\* keeps the menu's length and order, leaves every other dish as it was and
\* changes, in the dish at that position, no field the payload does not hold
\* and never the id; a successful dish deletion removes the dish at that
\* position and leaves the others as they were, in order
C28_OnlyThatDish ==
  [][\A s \in Slots :
       LET r == reqs[s]
           before == Menu(db, parseInt(r.id))
           now == Menu(db', parseInt(r.id))
           i == r.dishIndex
       IN /\ (r.kind \in RoutesOfDish /\ r.pc = "validateDishIdParam"
                /\ reqs'[s].pc \notin {"validateDishIdParam", "done"})
               => /\ reqs'[s].dishIndex \in 1..Len(before)
                  /\ before[reqs'[s].dishIndex].id = r.dishId
                  /\ \A j \in 1..(reqs'[s].dishIndex - 1) : before[j].id # r.dishId
                  /\ reqs'[s].restaurantDishes = before
          /\ (r.kind = PutDish /\ Written(s, 200))
               => /\ before[i].id = r.dishId
                  /\ Len(now) = Len(before)
                  /\ \A j \in 1..Len(before) : j # i => now[j] = before[j]
                  /\ now[i].id = before[i].id
                  /\ \A f \in {"name", "description", "price"} :
                       IF f \in KeySet(r.body) THEN now[i][f] = get(r.body, f)
                       ELSE now[i][f] = before[i][f]
          /\ (r.kind = DeleteDish /\ Written(s, 204))
               => /\ before[i].id = r.dishId
                  /\ Len(now) = Len(before) - 1
                  /\ \A j \in 1..Len(now) :
                       now[j] = IF j < i THEN before[j] ELSE before[j + 1]]_vars

\* a dish of a menu of two has been updated, the other dish still there
C28_Witness ==
  \E s \in Slots :
    /\ reqs[s].kind = PutDish
    /\ reqs[s].pc = "done"
    /\ reqs[s].status = 200
    /\ reqs[s].log = <<"SELECT", "SELECT", "UPDATE">>
    /\ Len(Menu(db, 1)) = 2
    /\ Menu(db, 1)[1].id = reqs[s].dishId
    /\ Menu(db, 1)[2].id = <<"2">>

(***************************************************************************)
(* Transactions of requests in flight together                             *)
(***************************************************************************)
Successes == {200, 201, 204}

\* the request has been answered with success and what it created is stored
AcknowledgedIn(d, r) ==
  /\ r.pc = "done"
  /\ r.status \in Successes
  /\ CASE r.kind = PostRating -> r.ins # {} /\ r.ins \subseteq Ids(d.ratings)
       [] r.kind = PostDish ->
            /\ RestaurantRows(d, parseInt(r.id)) # {}
            /\ r.nextDishId \in MenuIds(d, parseInt(r.id))
       [] OTHER -> FALSE

\* request s has just failed inside its transaction, or has just run its ROLLBACK
RolledBack(s) ==
  \/ reqs[s].pc # "ROLLBACK" /\ reqs'[s].pc = "ROLLBACK"
  \/ Issued(s, {"ROLLBACK"})

\* no BEGIN is issued inside an open transaction, and a statement issued
\* inside one belongs to a request that has issued a BEGIN
OwnStatementsOnly(s) ==
  /\ Issued(s, {"BEGIN"}) => txn = "idle"
  /\ (Issued(s, DataStatements) /\ txn # "idle")
       => \E i \in 1..Len(reqs[s].log) : reqs[s].log[i] = "BEGIN"

\* what another request created and had acknowledged stays stored when
\* request s fails and rolls back
AcknowledgedWriteKept(s) ==
  RolledBack(s) =>
    \A t \in Slots \ {s} : AcknowledgedIn(db, reqs[t]) => AcknowledgedIn(db', reqs[t])

\* the COMMIT of request s makes no row durable that another request, still
\* in flight, has inserted
OnlyOwnRowsCommitted(s) ==
  (Issued(s, {"COMMIT"}) /\ txn = "active" /\ txn' = "idle")
    => \A t \in Slots \ {s} :
         reqs[t].pc \notin {"free", "done"}
           => reqs[t].ins \cap Ids(db.ratings) \subseteq Ids(snap.ratings)

\* C29: each transaction holds the statements of the request that opened it
\* and of no other; no acknowledged write is undone by another request's
\* failure and ROLLBACK; no COMMIT makes another request's rows durable
C29_TransactionsIsolated ==
  [][\A s \in Slots :
       OwnStatementsOnly(s) /\ AcknowledgedWriteKept(s) /\ OnlyOwnRowsCommitted(s)]_vars

\* the three parts of C29, one at a time
StatementsOfOpenerOnly == [][\A s \in Slots : OwnStatementsOnly(s)]_vars
AcknowledgedWritesKept == [][\A s \in Slots : AcknowledgedWriteKept(s)]_vars
ForeignRowsNeverCommitted == [][\A s \in Slots : OnlyOwnRowsCommitted(s)]_vars

(***************************************************************************)
(* Dish changes of requests in flight together                             *)
(***************************************************************************)
\* the step is taken outside any transaction and keeps restaurant 1 stored
PlainStep ==
  /\ txn = "idle" /\ txn' = "idle"
  /\ RestaurantRows(db, 1) # {} /\ RestaurantRows(db', 1) # {}

\* the dish of menu dishes with this id
DishOf(dishes, id) ==
  dishes[CHOOSE i \in 1..Len(dishes) : parseInt(dishes[i].id) = id]

\* a dish on the menu stays on it until a deletion of that dish is acknowledged
CreatedDishesStay ==
  \A id \in MenuIds(db, 1) :
    \/ id \in MenuIds(db', 1)
    \/ \E s \in Slots : /\ reqs[s].kind = DeleteDish
                        /\ Written(s, 204)
                        /\ parseInt(reqs[s].dishId) = id

\* a dish keeps its content until an update of that dish is acknowledged
UpdatesStay ==
  \A id \in MenuIds(db, 1) \cap MenuIds(db', 1) :
    \/ DishOf(Menu(db', 1), id) = DishOf(Menu(db, 1), id)
    \/ \E s \in Slots : /\ reqs[s].kind = PutDish
                        /\ Written(s, 200)
                        /\ parseInt(reqs[s].dishId) = id

\* a dish id that has been given out and is no longer on the menu never
\* comes back
DeletedDishesStayAway ==
  \A id \in 1..(MaxRequests + 1) :
    (id < (CHOOSE row \in RestaurantRows(db, 1) : TRUE).nextDishId
       /\ id \notin MenuIds(db, 1))
      => id \notin MenuIds(db', 1)

\* C30: outside any transaction, no step loses an acknowledged dish change:
\* a created dish stays until its deletion is acknowledged, an updated
\* dish keeps its content until a later update of it, a deleted dish never
\* reappears
C30_NoDishChangeLost ==
  [][PlainStep => CreatedDishesStay /\ UpdatesStay /\ DeletedDishesStayAway]_vars

\* the three parts of C30, one at a time
NoCreatedDishLost == [][PlainStep => CreatedDishesStay]_vars
NoDishUpdateLost == [][PlainStep => UpdatesStay]_vars
NoDeletedDishBack == [][PlainStep => DeletedDishesStayAway]_vars

====
